---- MODULE Spec2Model ----
(***************************************************************************)
(* Model of the deterministic fallback engine of the finance assistant:    *)
(* backend/gigachat_integration.py (fallback transaction extraction, the   *)
(* model cache of the GigaChat client) and backend/app/services.           *)
(*                                                                         *)
(* Text is modelled character by character.  A character is a string: a    *)
(* Latin letter, digit or punctuation mark stands for itself, a Cyrillic   *)
(* lower-case letter is "c_" followed by its transliteration, a Cyrillic   *)
(* upper-case letter is "C_" followed by it; the rouble and euro signs are *)
(* "rub_sign" and "euro_sign".  A text is a sequence of characters.        *)
(* Amounts are fixed-point numbers counted in units of 1/Scale.            *)
(***************************************************************************)
EXTENDS Integers, Sequences, FiniteSets, TLC

VARIABLES
    message,    \* the user_message handed to the extraction
    result,     \* what the call returned (or that it raised)
    pc,         \* "start" before the call, "done" after it
    cache,      \* _available_model_cache, process-wide
    net,        \* state of the external service during a call
    history,    \* the transactions handed to the analytics with the message
    today       \* datetime.now().date(), as a day number

vars == <<message, result, pc, cache, net, history, today>>

-----------------------------------------------------------------------------
(* Characters, str.lower(), str.capitalize()                               *)

Digits == {"0", "1", "2", "3", "4", "5", "6", "7", "8", "9"}

DigitVal(c) ==
    CASE c = "0" -> 0 [] c = "1" -> 1 [] c = "2" -> 2 [] c = "3" -> 3
      [] c = "4" -> 4 [] c = "5" -> 5 [] c = "6" -> 6 [] c = "7" -> 7
      [] c = "8" -> 8 [] c = "9" -> 9

\* \s of the regular expressions, and what str.split() and float() strip
Whitespace == {" ", "\t", "\n"}

IsDigit(c) == c \in Digits

IsSpace(c) == c \in Whitespace

UpperChars ==
    { "C_a", "C_b", "C_v", "C_g", "C_d", "C_e", "C_yo", "C_zh", "C_z", "C_i", "C_j", "C_k", "C_l", "C_m", "C_n", "C_o", "C_p", "C_r", "C_s", "C_t", "C_u", "C_f", "C_h", "C_ts", "C_ch", "C_sh", "C_sch", "C_hard", "C_y", "C_soft", "C_eh", "C_yu", "C_ya",
      "A", "B", "C", "D", "E", "F", "G", "H", "I", "J", "K", "L", "M", "N", "O", "P", "Q", "R", "S", "T", "U", "V", "W", "X", "Y", "Z" }

CasePairs ==
    { <<"C_a", "c_a">>, <<"C_b", "c_b">>, <<"C_v", "c_v">>, <<"C_g", "c_g">>,
      <<"C_d", "c_d">>, <<"C_e", "c_e">>, <<"C_yo", "c_yo">>, <<"C_zh", "c_zh">>,
      <<"C_z", "c_z">>, <<"C_i", "c_i">>, <<"C_j", "c_j">>, <<"C_k", "c_k">>,
      <<"C_l", "c_l">>, <<"C_m", "c_m">>, <<"C_n", "c_n">>, <<"C_o", "c_o">>,
      <<"C_p", "c_p">>, <<"C_r", "c_r">>, <<"C_s", "c_s">>, <<"C_t", "c_t">>,
      <<"C_u", "c_u">>, <<"C_f", "c_f">>, <<"C_h", "c_h">>, <<"C_ts", "c_ts">>,
      <<"C_ch", "c_ch">>, <<"C_sh", "c_sh">>, <<"C_sch", "c_sch">>, <<"C_hard", "c_hard">>,
      <<"C_y", "c_y">>, <<"C_soft", "c_soft">>, <<"C_eh", "c_eh">>, <<"C_yu", "c_yu">>,
      <<"C_ya", "c_ya">>, <<"A", "a">>, <<"B", "b">>, <<"C", "c">>,
      <<"D", "d">>, <<"E", "e">>, <<"F", "f">>, <<"G", "g">>,
      <<"H", "h">>, <<"I", "i">>, <<"J", "j">>, <<"K", "k">>,
      <<"L", "l">>, <<"M", "m">>, <<"N", "n">>, <<"O", "o">>,
      <<"P", "p">>, <<"Q", "q">>, <<"R", "r">>, <<"S", "s">>,
      <<"T", "t">>, <<"U", "u">>, <<"V", "v">>, <<"W", "w">>,
      <<"X", "x">>, <<"Y", "y">>, <<"Z", "z">> }

LowerOf == [u \in UpperChars |-> (CHOOSE p \in CasePairs : p[1] = u)[2]]

LowerChars == {p[2] : p \in CasePairs}

UpperOf == [l \in LowerChars |-> (CHOOSE p \in CasePairs : p[2] = l)[1]]

Lower(c) == IF c \in UpperChars THEN LowerOf[c] ELSE c

Upper(c) == IF c \in LowerChars THEN UpperOf[c] ELSE c

\* F applied to the value of e: e is evaluated once, however often F uses it
Let(e, F(_)) == CHOOSE r \in {F(x) : x \in {e}} : TRUE

\* str.lower()
LowerSeq(s) == Let(s, LAMBDA v : [k \in 1..Len(v) |-> Lower(v[k])])

\* str.capitalize(): first character upper-cased, the rest lower-cased
Capitalize(s) ==
    Let(s, LAMBDA v : [k \in 1..Len(v) |-> IF k = 1 THEN Upper(v[k]) ELSE Lower(v[k])])

\* the Python test `w in s` on strings
Contains(s, w) ==
    \E p \in 1..(Len(s) - Len(w) + 1) : \A k \in 1..Len(w) : s[p + k - 1] = w[k]

\* any(keyword in s for keyword in kws)
AnyKeyword(s, kws) == \E i \in 1..Len(kws) : Contains(s, kws[i])

\* s[a:b] of Python for 0 <= a <= b <= len(s): characters a+1 .. b
Slice(s, a, b) == SubSeq(s, a + 1, b)

-----------------------------------------------------------------------------
(* Keyword tables of _simple_transaction_extraction                        *)

income_keywords ==
    << <<"c_p", "c_o", "c_l", "c_u", "c_ch", "c_i", "c_l">>,   \* poluchil
       <<"c_z", "c_a", "c_r", "c_a", "c_b", "c_o", "c_t", "c_a", "c_l">>,   \* zarabotal
       <<"c_d", "c_o", "c_h", "c_o", "c_d">>,   \* dohod
       <<"c_z", "c_a", "c_r", "c_p", "c_l", "c_a", "c_t", "c_a">>,   \* zarplata
       <<"c_z", "c_a", "c_r", "c_p", "c_l", "c_a", "c_t", "c_u">>,   \* zarplatu
       <<"c_p", "c_o", "c_l", "c_u", "c_ch", "c_i", "c_l", "c_a">>,   \* poluchila
       <<"c_z", "c_a", "c_r", "c_a", "c_b", "c_o", "c_t", "c_a", "c_l", "c_a">>,   \* zarabotala
       <<"c_p", "c_r", "c_i", "c_b", "c_y", "c_l", "c_soft">>,   \* pribylsoft
       <<"c_o", "c_t", "c_p", "c_r", "c_a", "c_v", "c_i", "c_l", "c_a">>,   \* otpravila
       <<"c_o", "c_t", "c_p", "c_r", "c_a", "c_v", "c_i", "c_l">>,   \* otpravil
       <<"c_p", "c_o", "c_d", "c_a", "c_r", "c_o", "c_k">>,   \* podarok
       <<"c_p", "c_o", "c_d", "c_a", "c_r", "c_i", "c_l">> >>   \* podaril

expense_keywords ==
    << <<"c_p", "c_o", "c_t", "c_r", "c_a", "c_t", "c_i", "c_l">>,   \* potratil
       <<"c_k", "c_u", "c_p", "c_i", "c_l">>,   \* kupil
       <<"c_z", "c_a", "c_p", "c_l", "c_a", "c_t", "c_i", "c_l">>,   \* zaplatil
       <<"c_r", "c_a", "c_s", "c_h", "c_o", "c_d">>,   \* rashod
       <<"c_t", "c_r", "c_a", "c_t", "c_a">>,   \* trata
       <<"c_p", "c_o", "c_t", "c_r", "c_a", "c_t", "c_i", "c_l", "c_a">>,   \* potratila
       <<"c_k", "c_u", "c_p", "c_i", "c_l", "c_a">>,   \* kupila
       <<"c_z", "c_a", "c_p", "c_l", "c_a", "c_t", "c_i", "c_l", "c_a">> >>   \* zaplatila

kw_Food ==
    << <<"c_e", "c_d", "c_a">>,   \* eda
       <<"c_p", "c_r", "c_o", "c_d", "c_u", "c_k", "c_t", "c_y">>,   \* produkty
       <<"c_h", "c_l", "c_e", "c_b">>,   \* hleb
       <<"c_m", "c_o", "c_l", "c_o", "c_k", "c_o">>,   \* moloko
       <<"c_r", "c_e", "c_s", "c_t", "c_o", "c_r", "c_a", "c_n">>,   \* restoran
       <<"c_k", "c_a", "c_f", "c_e">>,   \* kafe
       <<"c_o", "c_b", "c_e", "c_d">>,   \* obed
       <<"c_u", "c_zh", "c_i", "c_n">>,   \* uzhin
       <<"c_z", "c_a", "c_v", "c_t", "c_r", "c_a", "c_k">> >>   \* zavtrak

kw_Transport ==
    << <<"c_t", "c_r", "c_a", "c_n", "c_s", "c_p", "c_o", "c_r", "c_t">>,   \* transport
       <<"c_m", "c_a", "c_sh", "c_i", "c_n", "c_a">>,   \* mashina
       <<"c_b", "c_e", "c_n", "c_z", "c_i", "c_n">>,   \* benzin
       <<"c_t", "c_a", "c_k", "c_s", "c_i">>,   \* taksi
       <<"c_m", "c_e", "c_t", "c_r", "c_o">>,   \* metro
       <<"c_a", "c_v", "c_t", "c_o", "c_b", "c_u", "c_s">>,   \* avtobus
       <<"c_p", "c_r", "c_o", "c_e", "c_z", "c_d">> >>   \* proezd

kw_Entertainment ==
    << <<"c_k", "c_i", "c_n", "c_o">>,   \* kino
       <<"c_i", "c_g", "c_r", "c_y">>,   \* igry
       <<"c_r", "c_a", "c_z", "c_v", "c_l", "c_e", "c_ch", "c_e", "c_n", "c_i", "c_ya">>,   \* razvlecheniya
       <<"c_o", "c_t", "c_d", "c_y", "c_h">>,   \* otdyh
       <<"c_o", "c_t", "c_p", "c_u", "c_s", "c_k">>,   \* otpusk
       <<"c_k", "c_o", "c_n", "c_ts", "c_e", "c_r", "c_t">> >>   \* kontsert

kw_Health ==
    << <<"c_z", "c_d", "c_o", "c_r", "c_o", "c_v", "c_soft", "c_e">>,   \* zdorovsofte
       <<"c_l", "c_e", "c_ch", "c_e", "c_n", "c_i", "c_e">>,   \* lechenie
       <<"c_v", "c_r", "c_a", "c_ch">>,   \* vrach
       <<"c_l", "c_e", "c_k", "c_a", "c_r", "c_s", "c_t", "c_v", "c_a">>,   \* lekarstva
       <<"c_m", "c_e", "c_d", "c_i", "c_ts", "c_i", "c_n", "c_a">>,   \* meditsina
       <<"c_a", "c_p", "c_t", "c_e", "c_k", "c_a">>,   \* apteka
       <<"c_b", "c_o", "c_l", "c_soft", "c_n", "c_i", "c_ts", "c_a">> >>   \* bolsoftnitsa

kw_Shopping ==
    << <<"c_p", "c_o", "c_k", "c_u", "c_p", "c_k", "c_a">>,   \* pokupka
       <<"c_m", "c_a", "c_g", "c_a", "c_z", "c_i", "c_n">>,   \* magazin
       <<"c_o", "c_d", "c_e", "c_zh", "c_d", "c_a">>,   \* odezhda
       <<"c_o", "c_b", "c_u", "c_v", "c_soft">>,   \* obuvsoft
       <<"c_t", "c_e", "c_h", "c_n", "c_i", "c_k", "c_a">> >>   \* tehnika

kw_Housing ==
    << <<"c_zh", "c_i", "c_l", "c_soft", "c_e">>,   \* zhilsofte
       <<"c_a", "c_r", "c_e", "c_n", "c_d", "c_a">>,   \* arenda
       <<"c_k", "c_o", "c_m", "c_m", "c_u", "c_n", "c_a", "c_l", "c_soft", "c_n", "c_y", "c_e">>,   \* kommunalsoftnye
       <<"c_r", "c_e", "c_m", "c_o", "c_n", "c_t">>,   \* remont
       <<"c_k", "c_v", "c_a", "c_r", "c_t", "c_i", "c_r", "c_a">> >>   \* kvartira

kw_Work ==
    << <<"c_r", "c_a", "c_b", "c_o", "c_t", "c_a">>,   \* rabota
       <<"c_z", "c_a", "c_r", "c_p", "c_l", "c_a", "c_t", "c_a">>,   \* zarplata
       <<"c_z", "c_a", "c_r", "c_a", "c_b", "c_o", "c_t", "c_o", "c_k">>,   \* zarabotok
       <<"c_p", "c_r", "c_o", "c_e", "c_k", "c_t">>,   \* proekt
       <<"c_f", "c_r", "c_i", "c_l", "c_a", "c_n", "c_s">> >>   \* frilans

kw_Bills ==
    << <<"c_s", "c_ch", "c_e", "c_t">>,   \* schet
       <<"c_s", "c_ch", "c_e", "c_t", "c_a">>,   \* scheta
       <<"c_o", "c_p", "c_l", "c_a", "c_t", "c_a">>,   \* oplata
       <<"c_k", "c_o", "c_m", "c_m", "c_u", "c_n", "c_a", "c_l", "c_k", "c_a">>,   \* kommunalka
       <<"c_i", "c_n", "c_t", "c_e", "c_r", "c_n", "c_e", "c_t">>,   \* internet
       <<"c_t", "c_e", "c_l", "c_e", "c_f", "c_o", "c_n">> >>   \* telefon

\* the dict category_keywords, in its insertion (= iteration) order
category_keywords ==
    << [category |-> "Food", keywords |-> kw_Food],
       [category |-> "Transport", keywords |-> kw_Transport],
       [category |-> "Entertainment", keywords |-> kw_Entertainment],
       [category |-> "Health", keywords |-> kw_Health],
       [category |-> "Shopping", keywords |-> kw_Shopping],
       [category |-> "Housing", keywords |-> kw_Housing],
       [category |-> "Work", keywords |-> kw_Work],
       [category |-> "Bills", keywords |-> kw_Bills] >>

\* unit alternatives of the five amount patterns, in the order the regular
\* expression tries them; the class [ejya] of the first is written out
pattern_1 ==
    << <<"c_r", "c_u", "c_b", "c_l", "c_e">>,   \* ruble
       <<"c_r", "c_u", "c_b", "c_l", "c_j">>,   \* rublj
       <<"c_r", "c_u", "c_b", "c_l", "c_ya">>,   \* rublya
       <<"r", "u", "b">>,   \* rub
       <<"rub_sign">>,   \* _
       <<"c_r", ".">>,   \* r_
       <<"c_r", "c_u", "c_b">> >>   \* rub

pattern_2 ==
    << <<"c_t", "c_y", "c_s", "c_ya", "c_ch">>,   \* tysyach
       <<"c_t", "c_y", "c_s">>,   \* tys
       <<"c_k">>,   \* k
       <<"k">> >>   \* k

pattern_3 ==
    << <<"c_m", "c_i", "c_l", "c_l", "c_i", "c_o", "c_n">>,   \* million
       <<"c_m", "c_l", "c_n">>,   \* mln
       <<"m">> >>   \* m

pattern_4 ==
    << <<"c_d", "c_o", "c_l", "c_l", "c_a", "c_r">>,   \* dollar
       <<"u", "s", "d">>,   \* usd
       <<"$">>,   \* _
       <<"c_b", "c_a", "c_k", "c_s">> >>   \* baks

pattern_5 ==
    << <<"c_e", "c_v", "c_r", "c_o">>,   \* evro
       <<"e", "u", "r">>,   \* eur
       <<"euro_sign">> >>   \* _

\* the pattern list with the sixth pattern that is_transaction_message has:
\* the abbreviation "r." a second time
Mutant_SixPatterns ==
    <<pattern_1, pattern_2, pattern_3, pattern_4, pattern_5, << <<"c_r", ".">> >> >>

amount_patterns == <<pattern_1, pattern_2, pattern_3, pattern_4, pattern_5>>

income_words ==
    << <<"c_z", "c_a", "c_r", "c_p", "c_l", "c_a", "c_t", "c_a">>,   \* zarplata
       <<"c_d", "c_o", "c_h", "c_o", "c_d">>,   \* dohod
       <<"c_p", "c_r", "c_i", "c_b", "c_y", "c_l", "c_soft">>,   \* pribylsoft
       <<"c_z", "c_a", "c_r", "c_a", "c_b", "c_o", "c_t", "c_o", "c_k">> >>   \* zarabotok

expense_words ==
    << <<"c_k", "c_u", "c_p", "c_i", "c_l">>,   \* kupil
       <<"c_p", "c_o", "c_t", "c_r", "c_a", "c_t", "c_i", "c_l">>,   \* potratil
       <<"c_z", "c_a", "c_p", "c_l", "c_a", "c_t", "c_i", "c_l">>,   \* zaplatil
       <<"c_r", "c_a", "c_s", "c_h", "c_o", "c_d">> >>   \* rashod


-----------------------------------------------------------------------------
(* Calendar dates as day numbers                                           *)

\* calendar.isleap(y)
IsLeap(y) == (y % 4 = 0 /\ y % 100 # 0) \/ y % 400 = 0

\* days of month m of year y
DaysInMonth(y, m) ==
    IF m = 2 THEN (IF IsLeap(y) THEN 29 ELSE 28)
    ELSE IF m \in {4, 6, 9, 11} THEN 30 ELSE 31

RECURSIVE DaysBeforeMonth(_, _)
\* days of year y before the first of month m
DaysBeforeMonth(y, m) ==
    IF m = 1 THEN 0 ELSE DaysBeforeMonth(y, m - 1) + DaysInMonth(y, m - 1)

\* date(y, m, d).toordinal(): the day number of a date, 0001-01-01 being 1
DayNumber(y, m, d) ==
    (y - 1) * 365 + (y - 1) \div 4 - (y - 1) \div 100 + (y - 1) \div 400
    + DaysBeforeMonth(y, m) + d

\* the day the requests are made on
Today0 == DayNumber(2024, 3, 10)
-----------------------------------------------------------------------------
(* The amount regular expressions                                          *)

\* fixed-point resolution of an amount: a float is counted in tenths
Scale == 10

\* "amount": None
NoAmount == 0 - 1

\* float() raising ValueError
ValueError == 0 - 2

\* radius of the context window around a match, in characters
WindowRadius == 50

\* one transaction more than the slice keeps
Mutant_KeepSix == 5 + 1

\* at most this many candidates become transactions
MaxTransactions == 5

\* "description": context[:100]
DescriptionLen == 100

RECURSIVE DigitRunEnd(_, _)
\* first position >= i that holds no digit (Len(m) + 1 at the end): \d* from i
DigitRunEnd(m, i) ==
    IF i <= Len(m) /\ IsDigit(m[i]) THEN DigitRunEnd(m, i + 1) ELSE i

RECURSIVE SpaceRunEnd(_, _)
\* first position >= i that holds no whitespace: \s* from i
SpaceRunEnd(m, i) ==
    IF i <= Len(m) /\ IsSpace(m[i]) THEN SpaceRunEnd(m, i + 1) ELSE i

\* the literal tok stands at position p of m (re.IGNORECASE)
TokenAt(m, p, tok) ==
    /\ p + Len(tok) - 1 <= Len(m)
    /\ \A k \in 1..Len(tok) : Lower(m[p + k - 1]) = tok[k]

\* length of the first alternative of toks that stands at p, 0 if none does
AltLen(m, p, toks) ==
    Let({a \in 1..Len(toks) : TokenAt(m, p, toks[a])}, LAMBDA hits :
        IF hits = {} THEN 0
        ELSE Len(toks[CHOOSE a \in hits : \A b \in hits : a <= b]))

\* [\s,.] of the number part
IsSep(c) == IsSpace(c) \/ c \in {",", "."}

NoMatch == [ok |-> FALSE, start |-> 0, numEnd |-> 0, end |-> 0]

(* One amount pattern (digits, an optional separator, digits, whitespace,  *)
(* one of the unit alternatives) tried at position i (1-based), where a    *)
(* digit stands.  Every quantifier is greedy: the separator is tried       *)
(* present before absent.  The digit runs are always taken whole, since no *)
(* alternative starts with a digit.  start..end is group(0), start..numEnd *)
(* is group(1).                                                            *)
MatchAt(m, i, toks) ==
    Let(DigitRunEnd(m, i), LAMBDA d1 :
        Let(IF d1 <= Len(m) /\ IsSep(m[d1]) THEN DigitRunEnd(m, d1 + 1) ELSE 0, LAMBDA d2 :
            Let(IF d2 > 0 THEN SpaceRunEnd(m, d2) ELSE 0, LAMBDA wsA :
                Let(IF d2 > 0 THEN AltLen(m, wsA, toks) ELSE 0, LAMBDA lenA :
                    IF lenA > 0
                    THEN [ok |-> TRUE, start |-> i, numEnd |-> d2 - 1,
                          end |-> wsA + lenA - 1]
                    ELSE Let(SpaceRunEnd(m, d1), LAMBDA wsB :
                             Let(AltLen(m, wsB, toks), LAMBDA lenB :
                                 IF lenB > 0
                                 THEN [ok |-> TRUE, start |-> i, numEnd |-> d1 - 1,
                                       end |-> wsB + lenB - 1]
                                 ELSE NoMatch))))))

\* position of the first digit at or after pos, Len(m) + 1 if there is none
NextDigit(m, pos) ==
    IF \E k \in pos..Len(m) : IsDigit(m[k])
    THEN CHOOSE k \in pos..Len(m) : IsDigit(m[k]) /\ \A j \in pos..(k - 1) : ~IsDigit(m[j])
    ELSE Len(m) + 1

RECURSIVE FindIter(_, _, _)
\* re.finditer(pattern, m, re.IGNORECASE) from position pos: the leftmost
\* matches, none overlapping another
FindIter(m, toks, pos) ==
    Let(NextDigit(m, pos), LAMBDA i :
        IF i > Len(m) THEN <<>>
        ELSE Let(MatchAt(m, i, toks), LAMBDA mt :
                 IF mt.ok THEN <<mt>> \o FindIter(m, toks, mt.end + 1)
                 ELSE FindIter(m, toks, i + 1)))

\* the bare-number pattern (digits, an optional separator, digits) at the
\* digit at position i: it always matches
NumberAt(m, i) ==
    Let(DigitRunEnd(m, i), LAMBDA d1 :
        Let(IF d1 <= Len(m) /\ IsSep(m[d1]) THEN DigitRunEnd(m, d1 + 1) - 1 ELSE d1 - 1,
            LAMBDA e : [ok |-> TRUE, start |-> i, numEnd |-> e, end |-> e]))

RECURSIVE FindNumbers(_, _)
\* re.finditer(r'\d+[\s,.]?\d*', m) from position pos
FindNumbers(m, pos) ==
    Let(NextDigit(m, pos), LAMBDA i :
        IF i > Len(m) THEN <<>>
        ELSE Let(NumberAt(m, i), LAMBDA mt : <<mt>> \o FindNumbers(m, mt.end + 1)))

RECURSIVE IntVal(_, _)
\* value of the digits s[1..n]
IntVal(s, n) == IF n = 0 THEN 0 ELSE 10 * IntVal(s, n - 1) + DigitVal(s[n])

\* str.strip() on whitespace
Strip(s) ==
    Let(s, LAMBDA v :
        Let({k \in 1..Len(v) : ~IsSpace(v[k])}, LAMBDA keep :
            IF keep = {} THEN <<>>
            ELSE SubSeq(v, CHOOSE a \in keep : \A b \in keep : a <= b,
                           CHOOSE a \in keep : \A b \in keep : a >= b)))

(* float(s.replace(',', '.').replace(' ', '')) for a text of digits,       *)
(* separators and whitespace: the value in units of 1/Scale, or ValueError.*)
(* float() strips surrounding whitespace and accepts digits with at most   *)
(* one point; the fraction is kept to the resolution of Scale.             *)
ParseFloat(s) ==
    Let(Strip(SelectSeq(s, LAMBDA c : c # " ")), LAMBDA t :
        LET isDot(k) == t[k] = "," \/ t[k] = "."
            dots == {k \in 1..Len(t) : isDot(k)}
            wellFormed ==
                /\ \A k \in 1..Len(t) : IsDigit(t[k]) \/ isDot(k)
                /\ Cardinality(dots) <= 1
                /\ \E k \in 1..Len(t) : IsDigit(t[k])
            dot == IF dots = {} THEN Len(t) + 1 ELSE CHOOSE k \in dots : TRUE
            frac == IF dot < Len(t) THEN DigitVal(t[dot + 1]) ELSE 0
        IN  IF wellFormed THEN IntVal(t, dot - 1) * Scale + frac ELSE ValueError)

\* lines 1604-1608: the multiplier is chosen from the text of the whole match
Multiplier(g0) ==
    Let(LowerSeq(g0), LAMBDA low :
        IF \/ Contains(low, <<"c_t", "c_y", "c_s", "c_ya", "c_ch">>)
           \/ Contains(low, <<"c_t", "c_y", "c_s">>)
           \/ Contains(low, <<"c_k">>)
        THEN 1000
        ELSE IF \/ Contains(low, <<"c_m", "c_i", "c_l", "c_l", "c_i", "c_o", "c_n">>)
                \/ Contains(low, <<"c_m", "c_l", "c_n">>)
                \/ Contains(low, <<"m">>)
        THEN 1000000
        ELSE 1)

\* the whole message taken as the context of every match
Mutant_WholeMessage(m, s, e) == m

\* context = message[max(0, start - 50) : min(len(message), end + 50)]
\* for a match at the 1-based positions s..e
ContextOf(m, s, e) ==
    LET a == IF s - 1 - WindowRadius > 0 THEN s - 1 - WindowRadius ELSE 0
        b == IF e + WindowRadius < Len(m) THEN e + WindowRadius ELSE Len(m)
    IN  Slice(m, a, b)

\* one match of a unit pattern as a candidate: the amount (or ValueError),
\* the context, and the span of the match
UnitCandidate(m, mt) ==
    Let(ParseFloat(SubSeq(m, mt.start, mt.numEnd)), LAMBDA v :
        [amount |-> IF v = ValueError THEN v
                    ELSE v * Multiplier(SubSeq(m, mt.start, mt.end)),
         context |-> ContextOf(m, mt.start, mt.end),
         start |-> mt.start, end |-> mt.end])

\* body of the loop over one pattern's matches: the candidates it appends
UnitCandidates(m, toks) ==
    Let(FindIter(m, toks, 1), LAMBDA ms :
        SelectSeq([k \in 1..Len(ms) |-> Let(ms[k], LAMBDA mt : UnitCandidate(m, mt))],
                  LAMBDA c : c.amount > 0))

RECURSIVE AllUnitCandidates(_, _)
\* for pattern in amount_patterns: ... (patterns p..5)
AllUnitCandidates(m, p) ==
    IF p > Len(amount_patterns) THEN <<>>
    ELSE UnitCandidates(m, amount_patterns[p]) \o AllUnitCandidates(m, p + 1)

\* one bare number as a candidate
BareCandidate(m, mt) ==
    [amount |-> ParseFloat(SubSeq(m, mt.start, mt.end)),
     context |-> ContextOf(m, mt.start, mt.end),
     start |-> mt.start, end |-> mt.end]

\* the fallback scan for bare numbers
BareCandidates(m) ==
    Let(FindNumbers(m, 1), LAMBDA ms :
        SelectSeq([k \in 1..Len(ms) |-> Let(ms[k], LAMBDA mt : BareCandidate(m, mt))],
                  LAMBDA c : c.amount > 0))

\* amounts_with_context (with the span of each match kept beside it)
amounts_with_context(m) ==
    Let(AllUnitCandidates(m, 1), LAMBDA unit :
        IF unit # <<>> THEN unit ELSE BareCandidates(m))

-----------------------------------------------------------------------------
(* Classification and titles                                               *)

\* _determine_transaction_type(text_around_amount)
determine_transaction_type(text_around_amount) ==
    Let(LowerSeq(text_around_amount), LAMBDA text_lower_local :
        LET has_income == AnyKeyword(text_lower_local, income_keywords)
            has_expense == AnyKeyword(text_lower_local, expense_keywords)
        IN  IF has_income /\ ~has_expense THEN "income"
            ELSE IF has_expense THEN "expense"
            ELSE "expense")

\* the loop without its break: the last category with a keyword wins
Mutant_LastCategory(text_lower) ==
    Let({c \in 1..Len(category_keywords) :
            AnyKeyword(text_lower, category_keywords[c].keywords)}, LAMBDA hits :
        IF hits = {} THEN "Other"
        ELSE category_keywords[CHOOSE c \in hits : \A d \in hits : c >= d].category)

\* the loop over category_keywords.items() with its break: the first
\* category with a keyword in text_lower, "Other" if there is none
DetectCategory(text_lower) ==
    Let({c \in 1..Len(category_keywords) :
            AnyKeyword(text_lower, category_keywords[c].keywords)}, LAMBDA hits :
        IF hits = {} THEN "Other"
        ELSE category_keywords[CHOOSE c \in hits : \A d \in hits : c <= d].category)

RECURSIVE WordEnd(_, _)
\* first position >= i that holds whitespace
WordEnd(s, i) == IF i <= Len(s) /\ ~IsSpace(s[i]) THEN WordEnd(s, i + 1) ELSE i

RECURSIVE Split(_, _)
\* str.split() from position pos: the maximal runs without whitespace
Split(s, pos) ==
    IF pos > Len(s) THEN <<>>
    ELSE IF IsSpace(s[pos]) THEN Split(s, pos + 1)
    ELSE Let(WordEnd(s, pos), LAMBDA e : <<SubSeq(s, pos, e - 1)>> \o Split(s, e))

\* the generic titles
TitleIncome == <<"C_d", "c_o", "c_h", "c_o", "c_d">>

TitleExpense == <<"C_r", "c_a", "c_s", "c_h", "c_o", "c_d">>

\* the words that hold one of the keywords kws, by position
WordsWith(words, kws) ==
    {i \in 1..Len(words) : Let(LowerSeq(words[i]), LAMBDA w : AnyKeyword(w, kws))}

\* _extract_title_from_message(message, transaction_type)
extract_title_from_message(msg, transaction_type) ==
    Let(Split(msg, 1), LAMBDA words :
        IF transaction_type = "income"
        THEN Let(WordsWith(words, income_words), LAMBDA hits :
                 IF hits = {} THEN TitleIncome
                 ELSE Capitalize(words[CHOOSE i \in hits : \A j \in hits : i <= j]))
        ELSE Let(WordsWith(words, expense_words) \ {Len(words)}, LAMBDA hits :
                 IF hits = {} THEN TitleExpense
                 ELSE Capitalize(words[(CHOOSE i \in hits : \A j \in hits : i <= j) + 1])))

-----------------------------------------------------------------------------
(* _simple_transaction_extraction                                          *)

\* s[:n]
Prefix(s, n) == IF Len(s) <= n THEN s ELSE SubSeq(s, 1, n)

\* the transaction with a confidence that drops when the category is a default
Mutant_GradedConfidence(amount, context) ==
    Let(determine_transaction_type(context), LAMBDA trans_type :
        Let(DetectCategory(LowerSeq(context)), LAMBDA trans_category :
            [type |-> trans_type,
             title |-> extract_title_from_message(context, trans_type),
             amount |-> amount,
             category |-> trans_category,
             date |-> "today",
             description |-> Prefix(context, DescriptionLen),
             confidence |-> IF trans_category = "Other" THEN 5 ELSE 6]))

\* the transaction built in the loop for one (amount, context)
AmountTransaction(amount, context) ==
    Let(determine_transaction_type(context), LAMBDA trans_type :
        [type |-> trans_type,
         title |-> extract_title_from_message(context, trans_type),
         amount |-> amount,
         category |-> Let(LowerSeq(context), LAMBDA context_lower :
                          DetectCategory(context_lower)),
         date |-> "today",
         description |-> Prefix(context, DescriptionLen),
         confidence |-> 6])

\* the single transaction of the else branch, made when no amount was found
PlaceholderTransaction(m) ==
    Let(LowerSeq(m), LAMBDA text_lower :
        Let(IF AnyKeyword(text_lower, income_keywords) THEN "income" ELSE "expense",
            LAMBDA default_type :
                [type |-> default_type,
                 title |-> extract_title_from_message(m, default_type),
                 amount |-> NoAmount,
                 category |-> DetectCategory(text_lower),
                 date |-> "today",
                 description |-> Prefix(m, DescriptionLen),
                 confidence |-> 3]))

RECURSIVE SumAmounts(_, _, _)
\* sum(t["amount"] for t in ts if t["type"] == type and t.get("amount")),
\* over ts[1..n]
SumAmounts(ts, type, n) ==
    IF n = 0 THEN 0
    ELSE SumAmounts(ts, type, n - 1)
         + (IF ts[n].type = type /\ ts[n].amount # NoAmount /\ ts[n].amount # 0
            THEN ts[n].amount ELSE 0)

\* the dictionary a transaction list is returned in
ExtractionDict(transactions, questions) ==
    Let(transactions, LAMBDA ts :
        [transactions |-> ts,
         extracted_info |->
            [total_income |-> SumAmounts(ts, "income", Len(ts)),
             total_expense |-> SumAmounts(ts, "expense", Len(ts)),
             transactions_count |-> Len(ts)],
         questions |-> questions])

\* the extraction without its else branch: nothing found, nothing returned
Mutant_NoPlaceholder(m) ==
    Let(amounts_with_context(m), LAMBDA found :
        ExtractionDict(
            [k \in 1..Len(Prefix(found, MaxTransactions)) |->
                Let(found[k], LAMBDA c : AmountTransaction(c.amount, c.context))],
            <<>>))

simple_transaction_extraction(m) ==
    Let(amounts_with_context(m), LAMBDA found :
        IF found # <<>>
        THEN ExtractionDict(
                 [k \in 1..Len(Prefix(found, MaxTransactions)) |->
                     Let(found[k], LAMBDA c : AmountTransaction(c.amount, c.context))],
                 <<>>)
        ELSE ExtractionDict(<<PlaceholderTransaction(m)>>,
                            <<"clarify_amount", "clarify_date">>))

-----------------------------------------------------------------------------
(* Messages: words of a lexicon joined by single spaces                    *)

RECURSIVE Join(_, _)
\* " ".join(ws[1..n])
Join(ws, n) ==
    IF n = 0 THEN <<>>
    ELSE IF n = 1 THEN ws[1]
    ELSE Join(ws, n - 1) \o <<" ">> \o ws[n]

\* every message of at most n words of lex
Messages(lex, n) ==
    {Join(ws, Len(ws)) : ws \in UNION {[1..k -> lex] : k \in 0..n}}

NoResult == [raised |-> FALSE, source |-> "none", dict |-> ExtractionDict(<<>>, <<>>)]

Returned(source, dict) == [raised |-> FALSE, source |-> source, dict |-> dict]

\* a call of _simple_transaction_extraction(message)
SimpleExtract ==
    /\ pc = "start"
    /\ result' = Returned("fallback", simple_transaction_extraction(message))
    /\ pc' = "done"
    /\ UNCHANGED <<message, cache, net, history, today>>

\* longest message of SpecUnits, in words
MaxWordsUnits == 3

\* numbers, units of every class, one income keyword
LexUnits ==
    { <<"5">>,
      <<"0">>,
      <<"2", ",", "5">>,
      <<"5", "0", " ", "c_r", "c_u", "c_b">>,                      \* 50 rub (roubles)
      <<"8", "0", " ", "c_r", ".">>,                               \* 80 r. (roubles)
      <<"c_k">>,                                                   \* Cyrillic k: thousand
      <<"k">>,                                                     \* Latin k: thousand
      <<"c_b", "c_a", "c_k", "c_s">>,                              \* baks: dollars
      <<"c_m", "c_l", "c_n">>,                                     \* mln: million
      <<"c_p", "c_o", "c_l", "c_u", "c_ch", "c_i", "c_l">>,        \* poluchil: received
      <<"u", "s", "d">> }

InitUnits ==
    /\ message \in Messages(LexUnits, MaxWordsUnits)
    /\ result = NoResult
    /\ pc = "start"
    /\ cache = "None"
    /\ net = "up"
    /\ history = <<>>
    /\ today = Today0

NextUnits == SimpleExtract

SpecUnits == InitUnits /\ [][NextUnits]_vars

-----------------------------------------------------------------------------
(* Messages whose amounts stand more than one window apart                  *)

\* n filler characters that belong to no keyword and no number
Pad(n) == [k \in 1..n |-> "x"]

\* the longest filler between the word "poluchil" and a number that leaves
\* the whole word inside the number's window
PadIn == WindowRadius - 9

\* longest message of SpecTypes, in words
MaxWordsTypes == 4

\* an income keyword, an expense keyword with a Food keyword, a Transport
\* keyword, an amount, and fillers on either side of the window boundary
LexTypes ==
    { <<"c_p", "c_o", "c_l", "c_u", "c_ch", "c_i", "c_l">>,        \* poluchil: received
      <<"c_k", "c_u", "c_p", "c_i", "c_l", " ",
        "c_h", "c_l", "c_e", "c_b">>,                              \* kupil hleb: bought bread
      <<"c_t", "c_a", "c_k", "c_s", "c_i">>,                       \* taksi: taxi
      <<"5", " ", "c_r", "c_u", "c_b">>,                           \* 5 rub
      Pad(PadIn),
      Pad(PadIn + 1) }

\* the message of the extraction test: bread for 50 roubles, a snickers for
\* 100 roubles, then 10000 roubles sent by mum
test_message ==
    << "C_k", "c_u", "c_p", "c_i", "c_l", " ", "c_h", "c_l", "c_e", "c_b",
       " ", "c_z", "c_a", " ", "5", "0", " ", "c_r", "c_u", "c_b",
       "c_l", "c_e", "c_j", ",", " ", "c_s", "c_n", "c_i", "c_k", "c_e",
       "c_r", "c_s", " ", "c_z", "c_a", " ", "1", "0", "0", " ",
       "c_r", "c_u", "c_b", "c_l", "c_e", "c_j", ",", " ", "c_p", "c_o",
       "c_t", "c_o", "c_m", " ", "c_m", "c_a", "c_m", "c_a", " ", "c_o",
       "c_t", "c_p", "c_r", "c_a", "c_v", "c_i", "c_l", "c_a", " ", "1",
       "0", "0", "0", "0", " ", "c_r", "c_u", "c_b", "c_l", "c_e",
       "c_j", " ", "c_z", "c_a", " ", "c_h", "c_o", "c_r", "c_o", "c_sh",
       "c_u", "c_yu", " ", "c_u", "c_ch", "c_e", "c_b", "c_u" >>

InitTypes ==
    /\ message \in Messages(LexTypes, MaxWordsTypes) \cup {test_message}
    /\ result = NoResult
    /\ pc = "start"
    /\ cache = "None"
    /\ net = "up"
    /\ history = <<>>
    /\ today = Today0

NextTypes == SimpleExtract

SpecTypes == InitTypes /\ [][NextTypes]_vars

-----------------------------------------------------------------------------
(* Messages with more amounts than the extraction keeps                     *)

\* longest message of SpecCap, in words
MaxWordsCap == 6

LexCap ==
    { <<"5", " ", "c_r", "c_u", "c_b">>,                           \* 5 rub
      <<"7", " ", "c_t", "c_y", "c_s">>,                           \* 7 tys: 7 thousand
      <<"c_p", "c_o", "c_l", "c_u", "c_ch", "c_i", "c_l">> }       \* poluchil: received

InitCap ==
    /\ message \in Messages(LexCap, MaxWordsCap)
    /\ result = NoResult
    /\ pc = "start"
    /\ cache = "None"
    /\ net = "up"
    /\ history = <<>>
    /\ today = Today0

NextCap == SimpleExtract

SpecCap == InitCap /\ [][NextCap]_vars

-----------------------------------------------------------------------------
(* The extraction behind the /extract-transactions route                    *)

\* the alternatives of the route's pattern: rubl, rub, the rouble sign
route_tokens ==
    << <<"c_r", "c_u", "c_b", "c_l">>,
       <<"c_r", "c_u", "c_b">>,
       <<"rub_sign">> >>

\* the route's pattern (digits, whitespace, one alternative) tried at the
\* digit at position i; the group is the digit run
RouteMatchAt(m, i) ==
    Let(DigitRunEnd(m, i), LAMBDA d1 :
        Let(SpaceRunEnd(m, d1), LAMBDA ws :
            Let(AltLen(m, ws, route_tokens), LAMBDA len :
                IF len > 0
                THEN [ok |-> TRUE, start |-> i, numEnd |-> d1 - 1, end |-> ws + len - 1]
                ELSE NoMatch)))

RECURSIVE RouteFindAll(_, _)
\* re.findall(pattern, m, re.IGNORECASE) from position pos: the groups of the
\* leftmost matches.  A failed attempt at a digit fails at every later digit
\* of the same run, so the search goes on after the run.
RouteFindAll(m, pos) ==
    Let(NextDigit(m, pos), LAMBDA i :
        IF i > Len(m) THEN <<>>
        ELSE Let(RouteMatchAt(m, i), LAMBDA mt :
                 IF mt.ok THEN <<SubSeq(m, mt.start, mt.numEnd)>> \o RouteFindAll(m, mt.end + 1)
                 ELSE RouteFindAll(m, DigitRunEnd(m, i))))

\* the title is user_message[:50]
RouteTitleLen == 50

\* AIService.extract_transactions(user_message): one expense per rouble
\* amount, at most five, confidence 0.5; extracted_info is the empty dict
AIService_extract_transactions(user_message) ==
    Let(Prefix(RouteFindAll(user_message, 1), 5), LAMBDA amounts :
        [transactions |->
            [k \in 1..Len(amounts) |->
                [type |-> "expense",
                 title |-> Prefix(user_message, RouteTitleLen),
                 amount |-> IntVal(amounts[k], Len(amounts[k])) * Scale,
                 category |-> "Other",
                 date |-> "today",
                 description |-> <<>>,
                 confidence |-> 5]],
         extracted_info |-> <<>>,
         questions |-> <<>>])

\* TransactionService.extract(user_message): the transactions of the
\* AIService result, passed on as they are
TransactionService_extract(user_message) ==
    Let(AIService_extract_transactions(user_message), LAMBDA r :
        [transactions |-> r.transactions,
         extracted_info |-> r.extracted_info,
         questions |-> r.questions])

\* a request to POST /extract-transactions with the message
RouteExtract ==
    /\ pc = "start"
    /\ result' = Returned("route", TransactionService_extract(message))
    /\ pc' = "done"
    /\ UNCHANGED <<message, cache, net, history, today>>

\* longest message of SpecRoute, in words
MaxWordsRoute == 3

InitRoute ==
    /\ message \in Messages(LexUnits, MaxWordsRoute)
    /\ result = NoResult
    /\ pc = "start"
    /\ cache = "None"
    /\ net = "up"
    /\ history = <<>>
    /\ today = Today0

NextRoute == RouteExtract

SpecRoute == InitRoute /\ [][NextRoute]_vars

-----------------------------------------------------------------------------
(* The AI service, the model cache and the extraction with fallback         *)

PREFERRED_MODELS == <<"GigaChat", "GigaChat-Plus", "GigaChat-Pro">>

\* what the network does to a request: "up" answers, "no_token" answers the
\* token request with a status other than 200, "down" makes requests raise
Nets == {"up", "no_token", "down"}

\* get_access_token(): a token, None, or the exception of requests.request
get_access_token(n) ==
    IF n = "up" THEN "token" ELSE IF n = "no_token" THEN "None" ELSE "raise"

\* what chat_completion returns for a test request: a completion, or its
\* error dictionary with code 404, 402 or another code
ProbeOutcomes == {"ok", "e404", "e402", "other"}

RECURSIVE Mutant_ReturnOn402(_, _)
\* a model that answers 402 is returned wherever it stands in the list
Mutant_ReturnOn402(probe, i) ==
    IF i > Len(PREFERRED_MODELS) THEN "GigaChat"
    ELSE IF probe[i] \in {"ok", "e402"} THEN PREFERRED_MODELS[i]
    ELSE Mutant_ReturnOn402(probe, i + 1)

RECURSIVE ProbeFrom(_, _)
\* the loop over PREFERRED_MODELS from the i-th model, probe[i] being the
\* answer to the test request for it
ProbeFrom(probe, i) ==
    IF i > Len(PREFERRED_MODELS) THEN "GigaChat"
    ELSE IF probe[i] = "ok" THEN PREFERRED_MODELS[i]
    ELSE IF probe[i] = "e402" /\ i = Len(PREFERRED_MODELS) THEN PREFERRED_MODELS[i]
    ELSE ProbeFrom(probe, i + 1)

RECURSIVE ProbesFrom(_, _)
\* the number of test requests the loop makes from the i-th model on
ProbesFrom(probe, i) ==
    IF i > Len(PREFERRED_MODELS) THEN 0
    ELSE IF probe[i] = "ok" \/ (probe[i] = "e402" /\ i = Len(PREFERRED_MODELS)) THEN 1
    ELSE 1 + ProbesFrom(probe, i + 1)

\* detect_available_model() with the cache c under the network n: whether the
\* call raised, the model it returned, the cache it left and the number of
\* test requests it made
detect_available_model(c, n, probe) ==
    IF c # "None" THEN [raised |-> FALSE, model |-> c, cache |-> c, probes |-> 0]
    ELSE IF get_access_token(n) = "raise"
    THEN [raised |-> TRUE, model |-> "None", cache |-> c, probes |-> 0]
    ELSE IF get_access_token(n) = "None"
    THEN [raised |-> FALSE, model |-> "GigaChat", cache |-> "GigaChat", probes |-> 0]
    ELSE Let(ProbeFrom(probe, 1), LAMBDA model_name :
             [raised |-> FALSE, model |-> model_name, cache |-> model_name,
              probes |-> ProbesFrom(probe, 1)])

\* every outcome detect_available_model() can have, over the answers the
\* service may give to the test requests
DetectResults(c, n) ==
    {detect_available_model(c, n, probe) :
        probe \in [1..Len(PREFERRED_MODELS) -> ProbeOutcomes]}

\* GigaChatAIClient._is_available(): the exception is caught
is_available(n) == get_access_token(n) = "token"

\* what the service answers to the extraction request: a text from which a
\* dictionary with transactions is parsed, a text from which none is, or an
\* error dictionary
Responses == {"transactions", "nothing", "e404", "e402", "other"}

\* the retry is made with whatever model the detection returns
Mutant_RetrySameModel(model, c, n, resp1, d2, resp2) ==
    IF ~is_available(n)
    THEN [ret |-> "None", cache |-> c, requests |-> 0, resets |-> 0, detections |-> 0]
    ELSE IF resp1 = "e404"
    THEN IF d2.raised
         THEN [ret |-> "None", cache |-> "None", requests |-> 1, resets |-> 1,
               detections |-> 1]
         ELSE [ret |-> IF resp2 = "transactions" THEN "dict" ELSE "None",
               cache |-> d2.cache, requests |-> 2, resets |-> 1, detections |-> 1]
    ELSE [ret |-> IF resp1 = "transactions" THEN "dict" ELSE "None", cache |-> c,
          requests |-> 1, resets |-> 0, detections |-> 0]

\* GigaChatAIClient.extract_transactions() of a client with the model model:
\* resp1 answers the request, d2 is the outcome of the detection after a 404
\* and resp2 answers the retry.  ret is "dict" or "None"; requests counts the
\* completion requests for the extraction prompt, resets the times the cache
\* was set to None, detections the calls of detect_available_model().
client_extract_transactions(model, c, n, resp1, d2, resp2) ==
    IF ~is_available(n)
    THEN [ret |-> "None", cache |-> c, requests |-> 0, resets |-> 0, detections |-> 0]
    ELSE IF resp1 = "e404"
    THEN IF d2.raised
         THEN [ret |-> "None", cache |-> "None", requests |-> 1, resets |-> 1,
               detections |-> 1]
         ELSE IF d2.model # model
         THEN [ret |-> IF resp2 = "transactions" THEN "dict" ELSE "None",
               cache |-> d2.cache, requests |-> 2, resets |-> 1, detections |-> 1]
         ELSE [ret |-> "None", cache |-> d2.cache, requests |-> 1, resets |-> 1,
               detections |-> 1]
    ELSE [ret |-> IF resp1 = "transactions" THEN "dict" ELSE "None", cache |-> c,
          requests |-> 1, resets |-> 0, detections |-> 0]

\* GigaChatAIClient.analyze_emotions() of a client with the model model: one
\* completion request; an error dictionary, or a text without JSON, gives
\* None, and the cache is not touched
client_analyze_emotions(model, c, n, resp1) ==
    IF ~is_available(n)
    THEN [ret |-> "None", cache |-> c, requests |-> 0, resets |-> 0, detections |-> 0]
    ELSE [ret |-> IF resp1 = "transactions" THEN "dict" ELSE "None", cache |-> c,
          requests |-> 1, resets |-> 0, detections |-> 0]

\* a result the service extracted; its content is the service's
AiDict ==
    ExtractionDict(<<[type |-> "expense", title |-> <<"a", "i">>, amount |-> Scale,
                      category |-> "Other", date |-> "today", description |-> <<>>,
                      confidence |-> 9]>>, <<>>)

\* an exception left the function
Raised == [raised |-> TRUE, source |-> "exception", dict |-> ExtractionDict(<<>>, <<>>)]

\* a call of extract_transactions_with_fallback(message): the client is
\* constructed, asked whether the service is available and, if it is, asked
\* to extract; without a result of the service the simple extraction runs
ExtractWithFallback ==
    /\ pc = "start"
    /\ pc' = "done"
    /\ UNCHANGED <<message, net, history, today>>
    /\ \E d1 \in DetectResults(cache, net) :
          IF d1.raised
          THEN result' = Raised /\ cache' = d1.cache
          ELSE IF ~is_available(net)
          THEN /\ result' = Returned("fallback", simple_transaction_extraction(message))
               /\ cache' = d1.cache
          ELSE \E resp1 \in Responses, d2 \in DetectResults("None", net), resp2 \in Responses :
                  \E r \in {client_extract_transactions(d1.model, d1.cache, net, resp1, d2, resp2)} :
                      /\ cache' = r.cache
                      /\ result' = IF r.ret = "dict" THEN Returned("ai", AiDict)
                                   ELSE Returned("fallback",
                                                 simple_transaction_extraction(message))

\* longest message of SpecFallback, in words
MaxWordsFallback == 2

LexFallback ==
    { <<"5", " ", "c_r", "c_u", "c_b">>,                           \* 5 rub
      <<"c_p", "c_o", "c_l", "c_u", "c_ch", "c_i", "c_l">> }       \* poluchil: received

\* the next call arrives, with the network in any condition; the cache is
\* the process's and stays
NextRequest ==
    /\ pc = "done"
    /\ pc' = "start"
    /\ message' \in Messages(LexFallback, MaxWordsFallback)
    /\ net' \in Nets
    /\ result' = NoResult
    /\ UNCHANGED <<cache, history, today>>

\* the first call of the process: the cache is empty
InitFallback ==
    /\ message \in Messages(LexFallback, MaxWordsFallback)
    /\ result = NoResult
    /\ pc = "start"
    /\ cache = "None"
    /\ net \in Nets
    /\ history = <<>>
    /\ today = Today0

NextFallback == ExtractWithFallback \/ NextRequest

SpecFallback == InitFallback /\ [][NextFallback]_vars

-----------------------------------------------------------------------------
(* The spending analytics: tables                                           *)

\* keys of _is_analytics_request
analytics_keys ==
    << <<"c_a", "c_n", "c_a", "c_l", "c_i", "c_t", "c_i", "c_k">>,   \* analitik
       <<"c_s", "c_t", "c_a", "c_t", "c_i", "c_s", "c_t", "c_i", "c_k">>,   \* statistik
       <<"c_s", "c_k", "c_o", "c_l", "c_soft", "c_k", "c_o", " ", "c_ya", " ", "c_p", "c_o", "c_t", "c_r", "c_a", "c_t">>,   \* skolsoftko_ya_potrat
       <<"c_s", "c_k", "c_o", "c_l", "c_soft", "c_k", "c_o", " ", "c_p", "c_o", "c_t", "c_r", "c_a", "c_t">>,   \* skolsoftko_potrat
       <<"c_t", "c_r", "c_a", "c_t", "c_y">>,   \* traty
       <<"c_z", "c_a", "c_t", "c_r", "c_a", "c_t">>,   \* zatrat
       <<"c_r", "c_a", "c_s", "c_h", "c_o", "c_d">>,   \* rashod
       <<"c_g", "c_d", "c_e", " ", "c_s", "c_eh", "c_k", "c_o", "c_n", "c_o", "c_m">>,   \* gde_sehkonom
       <<"c_eh", "c_k", "c_o", "c_n", "c_o", "c_m">>,   \* ehkonom
       <<"c_s", "c_o", "c_k", "c_r", "c_a", "c_t">>,   \* sokrat
       <<"c_u", "c_m", "c_e", "c_n", "c_soft", "c_sh">>,   \* umensoftsh
       <<"c_s", "c_n", "c_i", "c_z">>,   \* sniz
       <<"c_s", "c_o", "c_k", "c_r", "c_a", "c_t">> >>   \* sokrat

\* the keywords that bring the hint about a target percent
hint_keywords ==
    << <<"c_s", "c_o", "c_k", "c_r", "c_a", "c_t">>,   \* sokrat
       <<"c_eh", "c_k", "c_o", "c_n", "c_o", "c_m">>,   \* ehkonom
       <<"c_u", "c_m", "c_e", "c_n", "c_soft", "c_sh">>,   \* umensoftsh
       <<"c_s", "c_n", "c_i", "c_z">> >>   \* sniz

\* the alternatives after the number of days, in the order the pattern lists them
day_tokens ==
    << <<"c_d", "c_n">>,   \* dn
       <<"c_d", "c_n", "c_ya">>,   \* dnya
       <<"c_d", "c_n", "c_e", "c_j">> >>   \* dnej

\* the phrases that stand for 7 days
week_phrases ==
    << <<"c_z", "c_a", " ", "c_n", "c_e", "c_d", "c_e", "c_l", "c_yu">>,   \* za_nedelyu
       <<"c_z", "c_a", " ", "7", " ", "c_d", "c_n", "c_e", "c_j">> >>   \* za_7_dnej

\* the phrases that stand for 30 days
month_phrases ==
    << <<"c_z", "c_a", " ", "c_m", "c_e", "c_s", "c_ya", "c_ts">>,   \* za_mesyats
       <<"c_z", "c_a", " ", "3", "0", " ", "c_d", "c_n", "c_e", "c_j">> >>   \* za_30_dnej

\* the verb stems of the first four percent patterns and of the fifth
percent_stems ==
    << <<"c_s", "c_o", "c_k", "c_r", "c_a", "c_t">>,   \* sokrat
       <<"c_u", "c_m", "c_e", "c_n", "c_soft", "c_sh">>,   \* umensoftsh
       <<"c_s", "c_n", "c_i", "c_z">>,   \* sniz
       <<"c_eh", "c_k", "c_o", "c_n", "c_o", "c_m">> >>   \* ehkonom

\* the character class after a stem: i, t, soft sign
verb_ending == {"c_i", "c_t", "c_soft"}

\* the character class before the number: n, a
na_class == {"c_n", "c_a"}

\* the literal "na" of the sixth percent pattern
na_token == <<"c_n", "c_a">>

\* the two values of the type enum
type_expense == <<"e", "x", "p", "e", "n", "s", "e">>

type_income == <<"i", "n", "c", "o", "m", "e">>

-----------------------------------------------------------------------------
(* The spending analytics: what the message asks for                        *)

\* the characters \w matches: letters, digits and the underscore
IsWordChar(c) == c \in LowerChars \/ c \in UpperChars \/ IsDigit(c) \/ c = "_"

\* \b at position q of m when the character before it is a word character:
\* the text ends there or a character that is no word character follows
BoundaryAfterWord(m, q) == q > Len(m) \/ ~IsWordChar(m[q])

\* \b at position q of m when the character before it is no word character:
\* a word character follows
BoundaryAfterNonWord(m, q) == q <= Len(m) /\ IsWordChar(m[q])

\* _is_analytics_request(message_lower)
is_analytics_request(message_lower) == AnyKeyword(message_lower, analytics_keys)

\* the answer of a search that found nothing
NoValue == 0 - 1

\* the greatest number of days a window may have (and the least is 1)
MaxDays == 366

\* the days pattern (one to three digits, whitespace, one of day_tokens, a
\* word boundary) tried at position i: the value of the digits, NoValue when
\* it does not match there.  Three digits are taken when they are there, and
\* fewer cannot match when a digit follows them.
DaysMatchAt(m, i) ==
    IF ~(i <= Len(m) /\ IsDigit(m[i])) THEN NoValue
    ELSE Let(DigitRunEnd(m, i), LAMBDA d1 :
             IF d1 - i > 3 THEN NoValue
             ELSE Let(SpaceRunEnd(m, d1), LAMBDA ws :
                      IF \E a \in 1..Len(day_tokens) :
                             /\ TokenAt(m, ws, day_tokens[a])
                             /\ BoundaryAfterWord(m, ws + Len(day_tokens[a]))
                      THEN IntVal(SubSeq(m, i, d1 - 1), d1 - i)
                      ELSE NoValue))

\* _extract_days(message_lower): the first match of the days pattern decides,
\* the phrases are looked at only when the pattern matches nowhere; None is
\* NoValue
extract_days(message_lower) ==
    Let({i \in 1..Len(message_lower) : DaysMatchAt(message_lower, i) # NoValue},
        LAMBDA hits :
            IF hits # {}
            THEN Let(DaysMatchAt(message_lower, CHOOSE i \in hits : \A j \in hits : i <= j),
                     LAMBDA v : IF 1 <= v /\ v <= MaxDays THEN v ELSE NoValue)
            ELSE IF AnyKeyword(message_lower, week_phrases) THEN 7
            ELSE IF AnyKeyword(message_lower, month_phrases) THEN 30
            ELSE NoValue)

\* days = _extract_days(message_lower) or 7
DefaultDays == 7

DaysOf(message_lower) ==
    Let(extract_days(message_lower), LAMBDA v : IF v = NoValue \/ v = 0 THEN DefaultDays ELSE v)

RECURSIVE ClassRunEnd(_, _, _)
\* first position >= i that holds no character of the class cls
ClassRunEnd(m, i, cls) ==
    IF i <= Len(m) /\ m[i] \in cls THEN ClassRunEnd(m, i + 1, cls) ELSE i

RECURSIVE Pow10(_)
Pow10(n) == IF n = 0 THEN 1 ELSE 10 * Pow10(n - 1)

NoNumber == [ok |-> FALSE, num |-> 0, den |-> 1, end |-> 0]

\* the number of the percent patterns (digits, then optionally a point or a
\* comma and digits) at position i, followed by whitespace and the percent
\* sign: its value num/den and the position of the percent sign.  The digit
\* runs are taken whole: a shorter one leaves a digit where none can follow.
PercentNumberAt(m, i) ==
    IF ~(i <= Len(m) /\ IsDigit(m[i])) THEN NoNumber
    ELSE Let(DigitRunEnd(m, i), LAMBDA d1 :
         Let(IF d1 + 1 <= Len(m) /\ m[d1] \in {".", ","} /\ IsDigit(m[d1 + 1])
             THEN DigitRunEnd(m, d1 + 1) ELSE d1, LAMBDA d2 :
         Let(SpaceRunEnd(m, d2), LAMBDA ws :
             IF ws <= Len(m) /\ m[ws] = "%"
             THEN [ok |-> TRUE,
                   num |-> IF d2 > d1
                           THEN IntVal(SubSeq(m, i, d1 - 1), d1 - i) * Pow10(d2 - d1 - 1)
                                + IntVal(SubSeq(m, d1 + 1, d2 - 1), d2 - d1 - 1)
                           ELSE IntVal(SubSeq(m, i, d1 - 1), d1 - i),
                   den |-> IF d2 > d1 THEN Pow10(d2 - d1 - 1) ELSE 1,
                   end |-> ws]
             ELSE NoNumber)))

\* patterns 1 to 4 at position i: the stem, its ending, whitespace, the
\* letters n and a, whitespace, the number, the percent sign
VerbPercentAt(m, i, stem) ==
    IF ~TokenAt(m, i, stem) THEN NoNumber
    ELSE Let(ClassRunEnd(m, i + Len(stem), verb_ending), LAMBDA j :
         Let(SpaceRunEnd(m, j), LAMBDA k :
             IF k = j THEN NoNumber
             ELSE PercentNumberAt(m, SpaceRunEnd(m, ClassRunEnd(m, k, na_class)))))

\* pattern 5 at position i: the number, the percent sign, whitespace, a stem
PercentVerbAt(m, i) ==
    Let(PercentNumberAt(m, i), LAMBDA n :
        IF n.ok /\ \E s \in 1..Len(percent_stems) :
                       TokenAt(m, SpaceRunEnd(m, n.end + 1), percent_stems[s])
        THEN n ELSE NoNumber)

\* pattern 6 at position i: the letters "na", whitespace, the number, the
\* percent sign
NaPercentAt(m, i) ==
    IF TokenAt(m, i, na_token) THEN PercentNumberAt(m, SpaceRunEnd(m, i + Len(na_token)))
    ELSE NoNumber

\* pattern 7 at position i: the number, the percent sign, a word boundary
BarePercentAt(m, i) ==
    Let(PercentNumberAt(m, i), LAMBDA n :
        IF n.ok /\ BoundaryAfterNonWord(m, n.end + 1) THEN n ELSE NoNumber)

\* the p-th of the seven percent patterns tried at position i
PercentPatternAt(m, p, i) ==
    IF p <= 4 THEN VerbPercentAt(m, i, percent_stems[p])
    ELSE IF p = 5 THEN PercentVerbAt(m, i)
    ELSE IF p = 6 THEN NaPercentAt(m, i)
    ELSE BarePercentAt(m, i)

PercentPatterns == Len(percent_stems) + 3

\* re.search(patterns[p], m): the match at the leftmost position
PercentSearch(m, p) ==
    Let({i \in 1..Len(m) : PercentPatternAt(m, p, i).ok}, LAMBDA hits :
        IF hits = {} THEN NoNumber
        ELSE PercentPatternAt(m, p, CHOOSE i \in hits : \A j \in hits : i <= j))

\* 0 < v < 100 for v = num/den
ValidPercent(n) == n.ok /\ 0 < n.num /\ n.num < 100 * n.den

NoPercent == [ok |-> FALSE, num |-> 0, den |-> 1]

RECURSIVE PercentFrom(_, _)
\* the first pattern that matches decides, and a value out of range is
\* brought into it
Mutant_CoerceIntoRange(m, p) ==
    IF p > PercentPatterns THEN NoPercent
    ELSE Let(PercentSearch(m, p), LAMBDA n :
             IF ValidPercent(n) THEN [ok |-> TRUE, num |-> n.num, den |-> n.den]
             ELSE IF n.ok THEN [ok |-> TRUE, num |-> 99, den |-> 1]
             ELSE PercentFrom(m, p + 1))

\* the loop over the patterns from the p-th: the first pattern whose match
\* has a value strictly between 0 and 100 returns it
PercentFrom(m, p) ==
    IF p > PercentPatterns THEN NoPercent
    ELSE Let(PercentSearch(m, p), LAMBDA n :
             IF ValidPercent(n) THEN [ok |-> TRUE, num |-> n.num, den |-> n.den]
             ELSE PercentFrom(m, p + 1))

\* _extract_percent(message_lower); None is NoPercent
extract_percent(message_lower) == PercentFrom(message_lower, 1)

-----------------------------------------------------------------------------
(* The spending analytics: the transactions handed in                       *)

\* a value float(), strptime() or fromisoformat() rejects
Unparseable == 0 - 1

\* the digits s[a..b] as a number, Unparseable unless all are digits
DigitsVal(s, a, b) ==
    IF a <= b /\ b <= Len(s) /\ \A k \in a..b : IsDigit(s[k])
    THEN IntVal(SubSeq(s, a, b), b - a + 1) ELSE Unparseable

\* the day number of year y, month mo, day d, Unparseable unless it is a
\* date of the calendar
ValidDate(y, mo, d) ==
    IF y >= 1 /\ mo >= 1 /\ mo <= 12 /\ d >= 1 /\ mo # Unparseable
    THEN (IF d <= DaysInMonth(y, mo) THEN DayNumber(y, mo, d) ELSE Unparseable)
    ELSE Unparseable

\* datetime.strptime(s, "%Y-%m-%d"): four digits, a dash, a month of one or
\* two digits, a dash, a day of one or two digits (or a blank and a digit),
\* and nothing after it
strptime(s) ==
    IF Len(s) < 8 \/ DigitsVal(s, 1, 4) = Unparseable THEN Unparseable
    ELSE IF s[5] # "-" THEN Unparseable
    ELSE Let(DigitRunEnd(s, 6), LAMBDA me :
             IF me = 6 \/ me > 8 \/ me > Len(s) THEN Unparseable
             ELSE IF s[me] # "-" THEN Unparseable
             ELSE Let(IF me + 1 <= Len(s) /\ s[me + 1] = " " THEN me + 2 ELSE me + 1,
                      LAMBDA ds :
                          IF Len(s) < ds \/ Len(s) > ds + 1 THEN Unparseable
                          ELSE IF ds = me + 2 /\ Len(s) # ds THEN Unparseable
                          ELSE Let(DigitsVal(s, ds, Len(s)), LAMBDA d :
                               Let(DigitsVal(s, 6, me - 1), LAMBDA mo :
                                   IF d = Unparseable THEN Unparseable
                                   ELSE ValidDate(DigitsVal(s, 1, 4), mo, d)))))

\* datetime.fromisoformat(s) for the form YYYY-MM-DDTHH:MM:SS, with or
\* without the offset +00:00 that stands for a final Z: the day number of its
\* date; every other text is rejected
fromisoformat(s) ==
    IF Len(s) \notin {19, 20} THEN Unparseable
    ELSE IF s[5] # "-" \/ s[8] # "-" \/ s[11] # "T" \/ s[14] # ":" \/ s[17] # ":"
    THEN Unparseable
    ELSE IF Len(s) = 20 /\ s[20] # "Z" THEN Unparseable
    ELSE IF \E f \in {<<1, 4>>, <<6, 7>>, <<9, 10>>, <<12, 13>>, <<15, 16>>, <<18, 19>>} :
                DigitsVal(s, f[1], f[2]) = Unparseable
    THEN Unparseable
    ELSE IF DigitsVal(s, 12, 13) > 23 \/ DigitsVal(s, 15, 16) > 59 \/ DigitsVal(s, 18, 19) > 59
    THEN Unparseable
    ELSE ValidDate(DigitsVal(s, 1, 4), DigitsVal(s, 6, 7), DigitsVal(s, 9, 10))

\* lines 168-171: the date of date_raw as a day number
ParseDate(date_raw) ==
    IF Contains(date_raw, <<"T">>) THEN fromisoformat(date_raw)
    ELSE strptime(Prefix(date_raw, 10))

\* float(s) of a text: surrounding whitespace, a sign, digits with at most one
\* point; the value in units of 1/Scale, or no value at all
FloatOfText(s) ==
    Let(Strip(s), LAMBDA t :
    Let(IF t # <<>> /\ t[1] \in {"-", "+"} THEN SubSeq(t, 2, Len(t)) ELSE t, LAMBDA b :
    Let({k \in 1..Len(b) : b[k] = "."}, LAMBDA dots :
        IF /\ \A k \in 1..Len(b) : IsDigit(b[k]) \/ b[k] = "."
           /\ Cardinality(dots) <= 1
           /\ \E k \in 1..Len(b) : IsDigit(b[k])
        THEN Let(IF dots = {} THEN Len(b) + 1 ELSE CHOOSE k \in dots : TRUE, LAMBDA dot :
                 [ok |-> TRUE,
                  v |-> (IF t[1] = "-" THEN 0 - 1 ELSE 1)
                        * (IntVal(b, dot - 1) * Scale
                           + (IF dot < Len(b) THEN DigitVal(b[dot + 1]) ELSE 0))])
        ELSE [ok |-> FALSE, v |-> 0])))

\* float(t.get("amount") or 0): a missing amount, an empty text and the
\* number 0 give 0
AmountOf(amount) ==
    IF amount.k = "none" THEN [ok |-> TRUE, v |-> 0]
    ELSE IF amount.k = "num" THEN [ok |-> TRUE, v |-> amount.v]
    ELSE IF amount.s = <<>> THEN [ok |-> TRUE, v |-> 0]
    ELSE FloatOfText(amount.s)

\* the body of the loop of _parse_transactions for one element: whether it is
\* kept, and the _Txn made of it
ParseRecord(t) ==
    IF ~t.dict THEN [ok |-> FALSE]
    ELSE IF t.date = <<>> THEN [ok |-> FALSE]
    ELSE Let(ParseDate(t.date), LAMBDA dt :
         IF dt = Unparseable THEN [ok |-> FALSE]
         ELSE Let(AmountOf(t.amount), LAMBDA amount :
              IF ~amount.ok THEN [ok |-> FALSE]
              ELSE Let(LowerSeq(t.type), LAMBDA txn_type :
                   IF txn_type \notin {type_expense, type_income} THEN [ok |-> FALSE]
                   ELSE [ok |-> TRUE,
                         txn |-> [date |-> dt,
                                  amount |-> amount.v,
                                  category |-> IF t.category = "" THEN "Other" ELSE t.category,
                                  title |-> t.title,
                                  txn_type |-> IF txn_type = type_expense THEN "expense"
                                               ELSE "income"]])))

RECURSIVE parse_transactions(_, _)
\* the try around the loop instead of inside it: the first record that does
\* not parse ends the parsing
Mutant_StopAtMalformed(transactions_in, n) ==
    IF n = 0 THEN <<>>
    ELSE IF \E k \in 1..(n - 1) : ~ParseRecord(transactions_in[k]).ok
    THEN parse_transactions(transactions_in, n - 1)
    ELSE Let(ParseRecord(transactions_in[n]), LAMBDA r :
             IF r.ok THEN Append(parse_transactions(transactions_in, n - 1), r.txn)
             ELSE parse_transactions(transactions_in, n - 1))

\* _parse_transactions(transactions) over transactions[1..n]: the records
\* that parse, in the order of the list
parse_transactions(transactions_in, n) ==
    IF n = 0 THEN <<>>
    ELSE Let(ParseRecord(transactions_in[n]), LAMBDA r :
             IF r.ok THEN Append(parse_transactions(transactions_in, n - 1), r.txn)
             ELSE parse_transactions(transactions_in, n - 1))

-----------------------------------------------------------------------------
(* The spending analytics: sums, orders and the savings plan                *)

RECURSIVE SumOf(_, _)
\* sum(t.amount for t in ts) over ts[1..n]
SumOf(ts, n) == IF n = 0 THEN 0 ELSE SumOf(ts, n - 1) + ts[n].amount

\* the assignment without the sum: the last expense of a category replaces
\* the ones before it
Mutant_LastAmountOnly(out, t) ==
    IF \E k \in 1..Len(out) : out[k].category = t.category
    THEN [k \in 1..Len(out) |->
             IF out[k].category = t.category
             THEN [category |-> out[k].category, amount |-> t.amount]
             ELSE out[k]]
    ELSE Append(out, [category |-> t.category, amount |-> t.amount])

\* out[t.category] = out.get(t.category, 0.0) + float(t.amount) on the dict
\* out, kept as the list of its items in the order the keys were inserted
AddToCategory(out, t) ==
    IF \E k \in 1..Len(out) : out[k].category = t.category
    THEN [k \in 1..Len(out) |->
             IF out[k].category = t.category
             THEN [category |-> out[k].category, amount |-> out[k].amount + t.amount]
             ELSE out[k]]
    ELSE Append(out, [category |-> t.category, amount |-> t.amount])

RECURSIVE sum_by_category(_, _)
\* _sum_by_category(expenses) over expenses[1..n]
sum_by_category(expenses, n) ==
    IF n = 0 THEN <<>>
    ELSE Let(sum_by_category(expenses, n - 1), LAMBDA out :
             AddToCategory(out, expenses[n]))

\* x put before the elements of equal amount: an order that is not stable
Mutant_InsertBeforeEqual(s, x) ==
    Let(Cardinality({k \in 1..Len(s) : s[k].amount > x.amount}), LAMBDA before :
        SubSeq(s, 1, before) \o <<x>> \o SubSeq(s, before + 1, Len(s)))

\* x put into the list s, which is in descending order of amount, after
\* every element whose amount is at least x's
InsertDescending(s, x) ==
    Let(Cardinality({k \in 1..Len(s) : s[k].amount >= x.amount}), LAMBDA before :
        SubSeq(s, 1, before) \o <<x>> \o SubSeq(s, before + 1, Len(s)))

\* no sorting: the list as it is
Mutant_Unsorted(s, n) == SubSeq(s, 1, n)

RECURSIVE SortedDescending(_, _)
\* sorted(s, key=amount, reverse=True) over s[1..n]: descending, and stable,
\* so that elements of equal amount keep the order they have in s
SortedDescending(s, n) ==
    IF n = 0 THEN <<>>
    ELSE Let(SortedDescending(s, n - 1), LAMBDA sorted : InsertDescending(sorted, s[n]))

\* the slices [:5] of the top categories and of the biggest expenses
TopCount == 5

\* a savings plan over all the top categories
Mutant_PlanAllTop == TopCount

\* the slice [:3] of the categories of the savings plan
PlanCategories == 3

\* f"{v:,.0f}" for v = n/u >= 0: the nearest integer, the even one of two
\* equally near
FmtMoney(n, u) ==
    Let(n \div u, LAMBDA q :
        Let(2 * (n % u), LAMBDA r2 :
            IF r2 < u THEN q
            ELSE IF r2 > u THEN q + 1
            ELSE IF q % 2 = 0 THEN q ELSE q + 1))

\* |v|
Abs(v) == IF v < 0 THEN 0 - v ELSE v

\* _build_savings_plan(percent, total_exp, top_cats): with 1/unit the unit of
\* target, savings and the cuts (an amount unit divided by 100 * den), target
\* is total_exp * (1 - percent / 100), savings is total_exp - target and the
\* cut of a category is its amount * percent / 100
build_savings_plan(percent, total_exp, top_cats) ==
    Let(100 * percent.den, LAMBDA per :
    Let(total_exp * (per - percent.num), LAMBDA target :
    Let(total_exp * per - target, LAMBDA savings :
    Let([k \in 1..Len(Prefix(top_cats, PlanCategories)) |->
            [name |-> top_cats[k].category,
             amt |-> top_cats[k].amount,
             cut |-> top_cats[k].amount * percent.num,
             new_amt |-> top_cats[k].amount * per - top_cats[k].amount * percent.num]],
        LAMBDA cuts :
            [unit |-> per * Scale,
             target |-> target,
             savings |-> savings,
             cuts |-> cuts,
             lines |->
                <<[section |-> "plan", kind |-> "title"],
                  [section |-> "plan", kind |-> "target",
                   amount |-> FmtMoney(target, per * Scale)],
                  [section |-> "plan", kind |-> "savings",
                   amount |-> FmtMoney(savings, per * Scale)]>>
                \o (IF top_cats # <<>>
                    THEN <<[section |-> "plan", kind |-> "categories"]>>
                         \o [k \in 1..Len(cuts) |->
                                [section |-> "plan", kind |-> "cut",
                                 name |-> cuts[k].name,
                                 was |-> FmtMoney(cuts[k].amt, Scale),
                                 becomes |-> FmtMoney(cuts[k].new_amt, per * Scale),
                                 amount |-> FmtMoney(cuts[k].cut, per * Scale)]]
                    ELSE <<>>)]))))

-----------------------------------------------------------------------------
(* The spending analytics: try_answer                                       *)

\* start and end of the current window: the days ending today
current_window(now, days) == [start |-> now - (days - 1), end |-> now]

\* a previous window that ends on the first day of the current one
Mutant_PrevEndsAtStart(start, days) == [start |-> start - days, end |-> start]

\* prev_start and prev_end: the days before the current window's start
prev_window(start, days) == [start |-> start - days, end |-> start - 1]

\* the positive amounts of one type among ts
PositiveOfType(ts, type) == SelectSeq(ts, LAMBDA t : t.txn_type = type /\ t.amount > 0)

\* a trend line whenever the previous total is not negative
Mutant_TrendAlways(total_exp, prev_total) ==
    IF prev_total >= 0
    THEN <<[section |-> "trend", kind |-> "trend",
            trend |-> IF total_exp - prev_total > 0 THEN "up" ELSE "down",
            amount |-> FmtMoney(Abs(total_exp - prev_total), Scale),
            delta_pct |-> [num |-> Abs(total_exp - prev_total) * 100,
                           den |-> prev_total]]>>
    ELSE <<>>

\* lines 58-59 and 68-72: the line that compares with the previous window,
\* made when delta_pct is not None; delta_pct = delta / prev_total * 100 is
\* kept as the fraction num / den, before it is printed with one decimal
TrendLines(total_exp, prev_total) ==
    IF prev_total > 0
    THEN <<[section |-> "trend", kind |-> "trend",
            trend |-> IF total_exp - prev_total > 0 THEN "up" ELSE "down",
            amount |-> FmtMoney(Abs(total_exp - prev_total), Scale),
            delta_pct |-> [num |-> Abs(total_exp - prev_total) * 100,
                           den |-> prev_total]]>>
    ELSE <<>>

\* lines 62-66: the heading, the expenses, the income when there is some,
\* the average per day
TotalsLines(days, w, total_exp, total_inc) ==
    <<[section |-> "totals", kind |-> "header", days |-> days,
       start |-> w.start, end |-> w.end],
      [section |-> "totals", kind |-> "expenses", amount |-> FmtMoney(total_exp, Scale)]>>
    \o (IF total_inc > 0
        THEN <<[section |-> "totals", kind |-> "income",
                amount |-> FmtMoney(total_inc, Scale)]>>
        ELSE <<>>)
    \o <<[section |-> "totals", kind |-> "average",
          amount |-> FmtMoney(total_exp, Scale * (IF days > 1 THEN days ELSE 1))]>>

\* lines 74-79: the top categories with their share of the expenses, the
\* share amt / total_exp * 100 kept as the fraction num / den
TopLines(top_cats, total_exp) ==
    IF top_cats = <<>> THEN <<>>
    ELSE <<[section |-> "top", kind |-> "blank"], [section |-> "top", kind |-> "title"]>>
         \o [k \in 1..Len(top_cats) |->
                [section |-> "top", kind |-> "item",
                 name |-> top_cats[k].category,
                 amount |-> FmtMoney(top_cats[k].amount, Scale),
                 share |-> IF total_exp > 0
                           THEN [num |-> top_cats[k].amount * 100, den |-> total_exp]
                           ELSE [num |-> 0, den |-> 1]]]

\* lines 81-85: the biggest expenses
BiggestLines(biggest) ==
    IF biggest = <<>> THEN <<>>
    ELSE <<[section |-> "biggest", kind |-> "blank"],
           [section |-> "biggest", kind |-> "title"]>>
         \o [k \in 1..Len(biggest) |->
                [section |-> "biggest", kind |-> "item",
                 date |-> biggest[k].date,
                 category |-> biggest[k].category,
                 title |-> biggest[k].title,
                 amount |-> FmtMoney(biggest[k].amount, Scale)]]

\* lines 87-92: the savings plan when a percent was asked for and there are
\* expenses, else the hint when the message speaks of cutting
TailLines(message_lower, percent, total_exp, plan) ==
    IF percent.ok /\ total_exp > 0
    THEN <<[section |-> "plan", kind |-> "blank"]>> \o plan.lines
    ELSE IF AnyKeyword(message_lower, hint_keywords)
    THEN <<[section |-> "hint", kind |-> "blank"], [section |-> "hint", kind |-> "hint"]>>
    ELSE <<>>

\* the trend after the top categories
Mutant_TrendAfterTop(totals, trend, top, big, tail) ==
    totals \o top \o trend \o big \o tail

\* the order in which the lines are appended
ReportLines(totals, trend, top, big, tail) ==
    totals \o trend \o top \o big \o tail

NoPlan == [unit |-> 1, target |-> 0, savings |-> 0, cuts |-> <<>>, lines |-> <<>>]

\* the element of a set of one element; The({e(x) : x \in {v}}) is e of the
\* value of v, which is computed once
The(S) == CHOOSE r \in S : TRUE

\* lines 43-94 of try_answer: the report on a current window that is not
\* empty.  The set formers bind the locals, the outermost the first assigned:
\* cur_exp and cur_income; then the totals, by_cat, biggest and the previous
\* window; then top_cats, prev and percent; innermost prev_total and the
\* plan.
Report(message_lower, txns, days, w, cur) ==
    The({
    The({
    The({
    The({
        [kind |-> "report",
         txns |-> txns,
         days |-> days,
         start |-> w.start,
         end |-> w.end,
         cur |-> cur,
         cur_exp |-> cur_exp,
         total_exp |-> total_exp,
         total_inc |-> total_inc,
         by_cat |-> by_cat,
         top_cats |-> top_cats,
         biggest |-> biggest,
         prev_start |-> pw.start,
         prev_end |-> pw.end,
         prev |-> prev,
         prev_total |-> prev_total,
         percent |-> percent,
         plan |-> plan,
         lines |-> ReportLines(TotalsLines(days, w, total_exp, total_inc),
                               TrendLines(total_exp, prev_total),
                               TopLines(top_cats, total_exp),
                               BiggestLines(biggest),
                               TailLines(message_lower, percent, total_exp, plan))] :
        prev_total \in {SumOf(prev, Len(prev))},
        plan \in {IF percent.ok /\ total_exp > 0
                  THEN build_savings_plan(percent, total_exp, top_cats) ELSE NoPlan} }) :
        top_cats \in {Prefix(SortedDescending(by_cat, Len(by_cat)), TopCount)},
        prev \in {SelectSeq(txns, LAMBDA t : /\ pw.start <= t.date /\ t.date <= pw.end
                                             /\ t.txn_type = "expense" /\ t.amount > 0)},
        percent \in {extract_percent(message_lower)} }) :
        total_exp \in {SumOf(cur_exp, Len(cur_exp))},
        total_inc \in {SumOf(cur_income, Len(cur_income))},
        by_cat \in {sum_by_category(cur_exp, Len(cur_exp))},
        biggest \in {Prefix(SortedDescending(cur_exp, Len(cur_exp)), TopCount)},
        pw \in {prev_window(w.start, days)} }) :
        cur_exp \in {PositiveOfType(cur, "expense")},
        cur_income \in {PositiveOfType(cur, "income")} })

\* lines 28-41 of try_answer, for an analytics request: the answer without
\* transactions that parse, the answer without transactions in the window, or
\* the report
Answer(message_lower, transactions_in, now) ==
    The({
        IF txns = <<>> THEN [kind |-> "no_transactions"]
        ELSE The({
             The({
             The({
                 IF cur = <<>>
                 THEN [kind |-> "no_current", txns |-> txns, days |-> days,
                       start |-> w.start, end |-> w.end]
                 ELSE Report(message_lower, txns, days, w, cur) :
                 cur \in {SelectSeq(txns, LAMBDA t : w.start <= t.date /\ t.date <= w.end)} }) :
                 w \in {current_window(now, days)} }) :
                 days \in {DaysOf(message_lower)} }) :
        txns \in {parse_transactions(transactions_in, Len(transactions_in))} })

\* None for a list of which no record parses
Mutant_NoneWhenNothingParses(user_message, transactions_in, now) ==
    IF parse_transactions(transactions_in, Len(transactions_in)) = <<>>
    THEN [kind |-> "None"]
    ELSE IF ~is_analytics_request(LowerSeq(user_message)) THEN [kind |-> "None"]
    ELSE Answer(LowerSeq(user_message), transactions_in, now)

\* try_answer(user_message, transactions) on the day now: None, one of the
\* two short answers, or the report
try_answer(user_message, transactions_in, now) ==
    IF transactions_in = <<>> THEN [kind |-> "None"]
    ELSE The({
             IF ~is_analytics_request(message_lower) THEN [kind |-> "None"]
             ELSE Answer(message_lower, transactions_in, now) :
             message_lower \in {LowerSeq(user_message)} })

\* a call of SpendingAnalyticsService.try_answer(message, history)
TryAnswer ==
    /\ pc = "start"
    /\ result' = Returned("analytics", try_answer(message, history, today))
    /\ pc' = "done"
    /\ UNCHANGED <<message, cache, net, history, today>>

-----------------------------------------------------------------------------
(* The requests and histories given to the spending analytics              *)

DigitChars == <<"0", "1", "2", "3", "4", "5", "6", "7", "8", "9">>

RECURSIVE DigitsOf(_, _)
\* the decimal digits of n, at least w of them
DigitsOf(n, w) ==
    IF n < 10 /\ w <= 1 THEN <<DigitChars[n + 1]>>
    ELSE Append(DigitsOf(n \div 10, w - 1), DigitChars[(n % 10) + 1])

\* date.fromordinal(n).isoformat(): the text YYYY-MM-DD of day number n
DateString(n) ==
    Let(CHOOSE y \in 2000..2030 : DayNumber(y, 1, 1) <= n /\ n < DayNumber(y + 1, 1, 1),
        LAMBDA y :
    Let(CHOOSE m \in 1..12 : /\ DayNumber(y, m, 1) <= n
                             /\ n < DayNumber(y, m, 1) + DaysInMonth(y, m),
        LAMBDA m :
        DigitsOf(y, 4) \o <<"-">> \o DigitsOf(m, 2) \o <<"-">>
        \o DigitsOf(n - DayNumber(y, m, 1) + 1, 2)))

\* a transaction of the history as the service is given it: a dict with the
\* date as text, the amount as a number, the type, the category and the title
Record(date, amount, type, category, title) ==
    [dict |-> TRUE, date |-> date, amount |-> [k |-> "num", v |-> amount],
     type |-> type, category |-> category, title |-> title]

\* an expense of amount roubles made ago days before today
Expense(ago, amount, category, title) ==
    Record(DateString(Today0 - ago), amount * Scale, type_expense, category, title)

\* an income of amount roubles received ago days before today
Income(ago, amount, category, title) ==
    Record(DateString(Today0 - ago), amount * Scale, type_income, category, title)

\* rasxody: expenses, a word that makes the message a request for analytics
word_expenses == <<"c_r", "c_a", "c_s", "c_h", "c_o", "c_d", "c_y">>

-----------------------------------------------------------------------------
(* Reports: requests over histories of a few transactions                  *)

\* the longest history given to the reports
MaxHistoryReport == 3

\* rasxody: expenses; for 3 days; cut by 20%; cut (no percent)
ReportMessages ==
    { <<"c_r", "c_a", "c_s", "c_h", "c_o", "c_d", "c_y">>,
      <<"c_r", "c_a", "c_s", "c_h", "c_o", "c_d", "c_y", " ", "c_z", "c_a", " ", "3", " ", "c_d", "c_n", "c_ya">>,
      <<"c_r", "c_a", "c_s", "c_h", "c_o", "c_d", "c_y", " ", "c_s", "c_o", "c_k", "c_r", "c_a", "c_t", "c_i", "c_t", "c_soft", " ", "c_n", "c_a", " ", "2", "0", "%">>,
      <<"c_r", "c_a", "c_s", "c_h", "c_o", "c_d", "c_y", " ", "c_s", "c_o", "c_k", "c_r", "c_a", "c_t", "c_i", "c_t", "c_soft">> }

\* two expenses of one category, an expense of another, an income, an expense
\* and an income of the week before, an old expense, an expense of nothing and
\* a refund entered as a negative expense
ReportPool ==
    { Expense(0, 100, "Food", "bread"),
      Expense(1, 200, "Food", "lunch"),
      Expense(2, 300, "Taxi", "ride"),
      Income(1, 500, "Work", "pay"),
      Expense(8, 400, "Rent", "room"),
      Income(9, 600, "Work", "bonus"),
      Expense(20, 50, "Fun", "film"),
      Expense(0, 0, "Zero", "free"),
      Record(DateString(Today0), (0 - 50) * Scale, type_expense, "Food", "refund") }

\* the lists of at most n different elements of pool
Arrangements(pool, n) ==
    {h \in UNION {[1..k -> pool] : k \in 0..n} :
        \A i, j \in 1..Len(h) : i # j => h[i] # h[j]}

InitReport ==
    /\ message \in ReportMessages
    /\ history \in Arrangements(ReportPool, MaxHistoryReport)
    /\ result = NoResult
    /\ pc = "start"
    /\ cache = "None"
    /\ net = "up"
    /\ today = Today0

NextReport == TryAnswer

SpecReport == InitReport /\ [][NextReport]_vars

-----------------------------------------------------------------------------
(* Windows: requests that state a number of days or a phrase               *)

\* the largest number of days stated as 0..MaxStatedDays
MaxStatedDays == 400

\* numbers of days of more than three digits
LongNumbers == {1000, 1001, 1234, 12345}

StatedNumbers == (0..MaxStatedDays) \cup LongNumbers

\* rasxody za N <days>: expenses for N days, with each of the three day words
DaysMessage(n) ==
    word_expenses \o <<" ", "c_z", "c_a", " ">> \o DigitsOf(n, 1) \o <<" ">> \o day_tokens[(n % 3) + 1]

\* expenses (no period); expenses for a week; expenses for a month
PhraseMessages ==
    { <<"c_r", "c_a", "c_s", "c_h", "c_o", "c_d", "c_y">>,
      <<"c_r", "c_a", "c_s", "c_h", "c_o", "c_d", "c_y", " ", "c_z", "c_a", " ", "c_n", "c_e", "c_d", "c_e", "c_l", "c_yu">>,
      <<"c_r", "c_a", "c_s", "c_h", "c_o", "c_d", "c_y", " ", "c_z", "c_a", " ", "c_m", "c_e", "c_s", "c_ya", "c_ts">> }

\* expenses on the first and the last day of a window of d days ending today
\* and of the d days before it, and one the day before those
BoundaryExpenses(d) ==
    << Expense(0, 100, "Food", "last"),
       Expense(d - 1, 200, "Taxi", "first"),
       Expense(d, 300, "Rent", "before"),
       Expense(2 * d - 1, 400, "Fun", "first before"),
       Expense(2 * d, 500, "Books", "older") >>

\* BoundaryExpenses(d), all of them or all but one
BoundaryHistories(d) ==
    {BoundaryExpenses(d)}
    \cup {SelectSeq(BoundaryExpenses(d), LAMBDA t : t # BoundaryExpenses(d)[skip]) :
             skip \in 1..5}

InitDays ==
    /\ \/ \E n \in StatedNumbers :
            /\ message = DaysMessage(n)
            /\ \E d \in {7, 30} \cup ({n} \cap (1..MaxStatedDays)) :
                   history \in BoundaryHistories(d)
       \/ /\ message \in PhraseMessages
          /\ \E d \in {7, 30} : history \in BoundaryHistories(d)
    /\ result = NoResult
    /\ pc = "start"
    /\ cache = "None"
    /\ net = "up"
    /\ today = Today0

NextDays == TryAnswer

SpecDays == InitDays /\ [][NextDays]_vars

-----------------------------------------------------------------------------
(* Savings plans: requests to cut the expenses by a percent                *)

\* the largest whole percent asked for
MaxPercent == 101

\* rasxody sokratit' na P%: expenses, cut by P%
PercentMessage(number) == <<"c_r", "c_a", "c_s", "c_h", "c_o", "c_d", "c_y", " ", "c_s", "c_o", "c_k", "c_r", "c_a", "c_t", "c_i", "c_t", "c_soft", " ", "c_n", "c_a", " ">> \o number \o <<"%">>

\* the percents 0..MaxPercent, and 0,5 and 12.5 and 99.9
PercentMessages ==
    {PercentMessage(DigitsOf(p, 1)) : p \in 0..MaxPercent}
    \cup {PercentMessage(<<"0", ",", "5">>), PercentMessage(<<"1", "2", ".", "5">>), PercentMessage(<<"9", "9", ".", "9">>)}

\* expenses of this week in six categories
PlanExpenses ==
    << Expense(0, 4000, "Rent", "room"),
       Expense(1, 3000, "Food", "market"),
       Expense(2, 2000, "Taxi", "rides"),
       Expense(3, 1000, "Fun", "film"),
       Expense(4, 500, "Books", "novel"),
       Expense(5, 250, "Gifts", "card") >>

\* the runs of PlanExpenses, and a history of one income
PlanHistories ==
    {SubSeq(PlanExpenses, a, b) : a \in 1..Len(PlanExpenses), b \in 1..Len(PlanExpenses)}
    \cup {<<Income(0, 700, "Work", "pay")>>}

InitPlan ==
    /\ message \in PercentMessages
    /\ history \in PlanHistories
    /\ result = NoResult
    /\ pc = "start"
    /\ cache = "None"
    /\ net = "up"
    /\ today = Today0

NextPlan == TryAnswer

SpecPlan == InitPlan /\ [][NextPlan]_vars

-----------------------------------------------------------------------------
(* Percents: _extract_percent on messages of a few phrases                 *)

\* a call of _extract_percent(message), the message being in lower case
ExtractPercent ==
    /\ pc = "start"
    /\ result' = Returned("percent", extract_percent(message))
    /\ pc' = "done"
    /\ UNCHANGED <<message, cache, net, history, today>>

\* the most phrases of a message
MaxWordsPercent == 2

\* cut by 30%; 30% cut; 150%; by 20%; cut by 150%; lower by 0%; save 7,5%;
\* by 100%; 45% of; cut (no number)
LexPercent ==
    { <<"c_s", "c_o", "c_k", "c_r", "c_a", "c_t", "c_i", "c_t", "c_soft", " ", "c_n", "c_a", " ", "3", "0", "%">>,
      <<"3", "0", "%", " ", "c_s", "c_o", "c_k", "c_r", "c_a", "c_t", "c_i", "c_t", "c_soft">>,
      <<"1", "5", "0", "%">>,
      <<"c_n", "c_a", " ", "2", "0", "%">>,
      <<"c_s", "c_o", "c_k", "c_r", "c_a", "c_t", "c_i", "c_t", "c_soft", " ", "c_n", "c_a", " ", "1", "5", "0", "%">>,
      <<"c_s", "c_n", "c_i", "c_z", "c_i", "c_t", "c_soft", " ", "c_n", "c_a", " ", "0", "%">>,
      <<"c_s", "c_eh", "c_k", "c_o", "c_n", "c_o", "c_m", "c_i", "c_t", "c_soft", " ", "7", ",", "5", "%">>,
      <<"c_n", "c_a", " ", "1", "0", "0", "%">>,
      <<"4", "5", "%", "c_o", "c_t">>,
      <<"c_s", "c_o", "c_k", "c_r", "c_a", "c_t", "c_i", "c_t", "c_soft">> }

InitPercent ==
    /\ message \in Messages(LexPercent, MaxWordsPercent)
    /\ result = NoResult
    /\ pc = "start"
    /\ cache = "None"
    /\ net = "up"
    /\ history = <<>>
    /\ today = Today0

NextPercent == ExtractPercent

SpecPercent == InitPercent /\ [][NextPercent]_vars

-----------------------------------------------------------------------------
(* Parsing: histories with records that do not parse                       *)

\* the longest history of SpecParse
MaxHistoryParse == 3

\* records with a date, a type and an amount that parse: a plain expense and
\* income, a date with a time of day, a type in capitals, an amount given as
\* text, no amount and no category
WellFormedRecords ==
    { Expense(0, 100, "Food", "bread"),
      Income(1, 500, "Work", "pay"),
      Record(DateString(Today0 - 2) \o <<"T", "1", "2", ":", "3", "0", ":", "0", "0">>, 300 * Scale, type_expense,
             "Taxi", "ride"),
      Record(DateString(Today0 - 3), 40 * Scale, <<"E", "X", "P", "E", "N", "S", "E">>, "Fun", "film"),
      [dict |-> TRUE, date |-> DateString(Today0 - 1),
       amount |-> [k |-> "str", s |-> <<"1", "2", ".", "5">>],
       type |-> type_expense, category |-> "Food", title |-> "tea"],
      [dict |-> TRUE, date |-> DateString(Today0),
       amount |-> [k |-> "none"],
       type |-> type_expense, category |-> "", title |-> "gift"] }

\* records that do not parse: no date, a date that is none, a day that does
\* not exist, a type that is neither expense nor income, an amount that is no
\* number, and an element that is no dict
MalformedRecords ==
    { Record(<<>>, 100 * Scale, type_expense, "Food", "undated"),
      Record(<<"1", "0", ".", "0", "3", ".", "2", "0", "2", "4">>, 100 * Scale, type_expense, "Food", "dotted"),
      Record(<<"2", "0", "2", "4", "-", "0", "2", "-", "3", "0">>, 100 * Scale, type_expense, "Food", "no such day"),
      Record(DateString(Today0), 100 * Scale, <<"t", "r", "a", "n", "s", "f", "e", "r">>, "Food", "moved"),
      [dict |-> TRUE, date |-> DateString(Today0),
       amount |-> [k |-> "str", s |-> <<"a", "b", "c">>],
       type |-> type_expense, category |-> "Food", title |-> "worded"],
      [dict |-> FALSE, title |-> "no dict"] }

InitParse ==
    /\ message = word_expenses
    /\ history \in Arrangements(WellFormedRecords \cup MalformedRecords, MaxHistoryParse)
    /\ result = NoResult
    /\ pc = "start"
    /\ cache = "None"
    /\ net = "up"
    /\ today = Today0

NextParse == TryAnswer

SpecParse == InitParse /\ [][NextParse]_vars

-----------------------------------------------------------------------------
(* Rankings: histories of expenses of two amounts in six categories        *)

\* the longest history of SpecTop
MaxHistoryTop == 7

\* the categories, the days before today and the titles of the expenses of a
\* history, by their place in it; the seventh place repeats the category of
\* the first
TopCategoryAt == <<"Food", "Taxi", "Rent", "Fun", "Books", "Gifts", "Food">>

TopAgoAt == <<1, 0, 2, 0, 1, 2, 0>>

TopTitleAt == <<"first", "second", "third", "fourth", "fifth", "sixth", "seventh">>

\* the place in the three lists above of the k-th expense
TopPlace(k) == ((k - 1) % Len(TopCategoryAt)) + 1

\* histories of expenses of 100 or 200 each
TopHistories ==
    {[k \in 1..Len(amounts) |->
         Record(DateString(Today0 - TopAgoAt[TopPlace(k)]), amounts[k] * Scale, type_expense,
                TopCategoryAt[TopPlace(k)],
                IF k <= Len(TopTitleAt) THEN TopTitleAt[k] ELSE "later")] :
        amounts \in UNION {[1..n -> {100, 200}] : n \in 0..MaxHistoryTop}}

InitTop ==
    /\ message = word_expenses
    /\ history \in TopHistories
    /\ result = NoResult
    /\ pc = "start"
    /\ cache = "None"
    /\ net = "up"
    /\ today = Today0

NextTop == TryAnswer

SpecTop == InitTop /\ [][NextTop]_vars
-----------------------------------------------------------------------------
(* Calls of try_answer with and without an analytics request, with lists    *)
(* that are empty, that do not parse and that lie outside the window        *)

\* longest transaction list of SpecAnswer
MaxHistoryAnswer == 3

\* an analytics request, one in capitals with a window of 3 days, a greeting
\* and the empty message
AnswerMessages ==
    { <<"c_r", "c_a", "c_s", "c_h", "c_o", "c_d", "c_y">>,
      <<"C_r", "C_a", "C_s", "C_h", "C_o", "C_d", "C_y", " ", "c_z", "c_a", " ", "3", " ", "c_d", "c_n", "c_ya">>,
      <<"c_p", "c_r", "c_i", "c_v", "c_e", "c_t">>,
      <<>> }

\* an expense of today, one of five days ago (outside a window of 3 days),
\* an old one, an income, two records that do not parse and an element that
\* is no dict
AnswerPool ==
    { Expense(0, 100, "Food", "bread"),
      Expense(5, 200, "Taxi", "ride"),
      Expense(20, 50, "Fun", "film"),
      Income(1, 500, "Work", "pay"),
      Record(<<>>, 100 * Scale, type_expense, "Food", "undated"),
      Record(DateString(Today0), 100 * Scale, <<"t", "r", "a", "n", "s", "f", "e", "r">>, "Food", "moved"),
      [dict |-> FALSE, title |-> "no dict"] }

InitAnswer ==
    /\ message \in AnswerMessages
    /\ history \in Arrangements(AnswerPool, MaxHistoryAnswer)
    /\ result = NoResult
    /\ pc = "start"
    /\ cache = "None"
    /\ net = "up"
    /\ today = Today0

NextAnswer == TryAnswer

SpecAnswer == InitAnswer /\ [][NextAnswer]_vars

-----------------------------------------------------------------------------
(* Emotion vectors and the emotion computations                             *)

\* the keys of an emotion vector, in the order the dictionaries list them
EmotionKeys == <<"joy", "fear", "anger", "sadness", "surprise", "neutral">>

\* an emotions dictionary: the weight of key k is w[k] / unit; the keys are
\* those of w
Vector(unit, w) == [unit |-> unit, w |-> w]

\* the dictionary with the six keys at 0
ZeroWeights == [k \in {EmotionKeys[i] : i \in 1..Len(EmotionKeys)} |-> 0]

\* w with the keys of changes set to their new weights
With(w, changes) == [k \in DOMAIN w |-> IF k \in DOMAIN changes THEN changes[k] ELSE w[k]]

RECURSIVE SumOver(_, _)
\* sum(w.values()), over the keys of the set keys
SumOver(w, keys) ==
    IF keys = {} THEN 0
    ELSE LET k == CHOOSE x \in keys : TRUE
         IN w[k] + SumOver(w, keys \ {k})

\* sum(emotions.values()), in units of 1 / unit
TotalOf(v) == SumOver(v.w, DOMAIN v.w)

\* the number of words of the list that the text contains
CountIn(text_lower, words) ==
    Cardinality({k \in 1..Len(words) : Contains(text_lower, words[k])})

\* {k: v / total for k, v in emotions.items()} when total > 0, the
\* dictionary as it is otherwise
Normalized(v) ==
    IF TotalOf(v) > 0 THEN Vector(TotalOf(v), v.w) ELSE v

\* the word lists of the heuristic of AIService.analyze_emotions
emotion_hints ==
    [anger |-> <<<<"c_b", "c_l", "c_ya", "c_t", "c_soft">>,
          <<"c_s", "c_u", "c_k", "c_a">>,
          <<"c_p", "c_i", "c_z", "c_d", "c_e", "c_ts">>,
          <<"c_h", "c_u", "c_j", "c_n", "c_ya">>,
          <<"c_z", "c_l", "c_o", "c_j">>,
          <<"c_z", "c_l", "c_yu", "c_s", "c_soft">>,
          <<"c_b", "c_e", "c_s", "c_i", "c_t">>>>,
     joy |-> <<<<"c_s", "c_p", "c_a", "c_s", "c_i", "c_b", "c_o">>,
          <<"c_b", "c_l", "c_a", "c_g", "c_o", "c_d", "c_a", "c_r", "c_yu">>,
          <<"c_o", "c_t", "c_l", "c_i", "c_ch", "c_n", "c_o">>,
          <<"c_h", "c_o", "c_r", "c_o", "c_sh", "c_o">>,
          <<"c_r", "c_a", "c_d">>>>,
     sadness |-> <<<<"c_g", "c_r", "c_u", "c_s", "c_t", "c_n", "c_o">>,
          <<"c_p", "c_e", "c_ch", "c_a", "c_l", "c_soft", "c_n", "c_o">>,
          <<"c_p", "c_l", "c_o", "c_h", "c_o">>,
          <<"c_p", "c_r", "c_o", "c_b", "c_l", "c_e", "c_m", "c_a">>>>]

\* the heuristic of AIService.analyze_emotions, in tenths
heuristic_emotions(text_lower) ==
    IF AnyKeyword(text_lower, emotion_hints.anger)
    THEN Vector(10, With(ZeroWeights, [anger |-> 6, neutral |-> 4]))
    ELSE IF AnyKeyword(text_lower, emotion_hints.joy)
    THEN Vector(10, With(ZeroWeights, [joy |-> 6, neutral |-> 4]))
    ELSE IF AnyKeyword(text_lower, emotion_hints.sadness)
    THEN Vector(10, With(ZeroWeights, [sadness |-> 5, neutral |-> 5]))
    ELSE Vector(10, With(ZeroWeights, [neutral |-> 5]))

\* the vector of a reply that holds none
NoVector == Vector(10, ZeroWeights)

\* what the completion request of AIService.analyze_emotions brings: the
\* call raises, an error dictionary, a text without a JSON object that has
\* the key "emotions", emotions whose values cannot be summed, or an
\* emotions dictionary v of numbers
EmotionReply(k, v) == [k |-> k, v |-> v]

\* AIService.analyze_emotions(text): the dictionary of the reply, divided by
\* its sum when the sum is above 0 (an empty one is returned as it is), or
\* the heuristic when the integration is not loaded, no token is got, the
\* request fails or the reply holds no emotions
analyze_emotions(text, available, n, reply) ==
    IF available /\ get_access_token(n) = "token" /\ reply.k = "emotions"
    THEN [path |-> "ai", emotions |-> Normalized(reply.v)]
    ELSE [path |-> "heuristic", emotions |-> heuristic_emotions(LowerSeq(text))]

\* the word lists of the heuristic of analyze_friendliness
friendliness_words ==
    [negative |-> <<<<"c_b", "c_l", "c_ya", "c_t", "c_soft">>,
          <<"c_s", "c_u", "c_k", "c_a">>,
          <<"c_p", "c_i", "c_z", "c_d", "c_e", "c_ts">>,
          <<"c_h", "c_u", "c_j", "c_n", "c_ya">>,
          <<"c_e", "c_b", "c_a", "c_n", "c_u", "c_t", "c_y", "c_j">>,
          <<"c_g", "c_o", "c_v", "c_n", "c_o">>,
          <<"c_i", "c_d", "c_i", "c_o", "c_t">>,
          <<"c_t", "c_u", "c_p", "c_o", "c_j">>>>,
     positive |-> <<<<"c_s", "c_p", "c_a", "c_s", "c_i", "c_b", "c_o">>,
          <<"c_p", "c_o", "c_zh", "c_a", "c_l", "c_u", "c_j", "c_s", "c_t", "c_a">>,
          <<"c_b", "c_l", "c_a", "c_g", "c_o", "c_d", "c_a", "c_r", "c_yu">>,
          <<"c_o", "c_t", "c_l", "c_i", "c_ch", "c_n", "c_o">>,
          <<"c_h", "c_o", "c_r", "c_o", "c_sh", "c_o">>,
          <<"c_p", "c_o", "c_m", "c_o", "c_g", "c_i", "c_t", "c_e">>>>]

\* emotion_weights, in thousandths
emotion_weights ==
    [joy |-> 400, surprise |-> 100, neutral |-> 0,
     sadness |-> 0 - 200, fear |-> 0 - 150, anger |-> 0 - 500]

\* the sum of emotions.get(emotion, 0.0) * weight over the weights, in units
\* of 1 / (1000 * unit)
OffsetOf(v) ==
    SumOver([k \in DOMAIN emotion_weights |->
                 IF k \in DOMAIN v.w THEN v.w[k] * emotion_weights[k] ELSE 0],
            DOMAIN emotion_weights)

Min(a, b) == IF a < b THEN a ELSE b

Max(a, b) == IF a > b THEN a ELSE b

\* max(0.0, min(1.0, base_score + emotion_offset)) as the fraction num / den,
\* base_score in thousandths
FinalScore(base_score, v) ==
    [num |-> Max(0, Min(1000 * v.unit, base_score * v.unit + OffsetOf(v))),
     den |-> 1000 * v.unit]

\* the base score and the label of the heuristic
heuristic_base(negative_count, positive_count) ==
    IF negative_count > positive_count
    THEN [base_score |-> Max(0, 500 - negative_count * 150), sentiment |-> "negative"]
    ELSE IF positive_count > negative_count
    THEN [base_score |-> Min(1000, 500 + positive_count * 150), sentiment |-> "positive"]
    ELSE [base_score |-> 500, sentiment |-> "neutral"]

\* the emotions of the heuristic, in tenths
fallback_emotions(negative_count, positive_count) ==
    IF negative_count > 0
    THEN Vector(10, With(ZeroWeights, [anger |-> Min(10, negative_count * 3),
                                       neutral |-> 10 - Min(10, negative_count * 3)]))
    ELSE IF positive_count > 0
    THEN Vector(10, With(ZeroWeights, [joy |-> Min(10, positive_count * 3),
                                       neutral |-> 10 - Min(10, positive_count * 3)]))
    ELSE Vector(10, With(ZeroWeights, [neutral |-> 10]))

\* the result dictionary of analyze_friendliness
FriendlinessDict(path, b, v) ==
    [path |-> path,
     friendliness_score |-> FinalScore(b.base_score, v),
     sentiment |-> b.sentiment,
     base_score |-> b.base_score,
     emotions |-> v]

\* the keyword heuristic of analyze_friendliness
heuristic_friendliness(text_lower) ==
    The({FriendlinessDict("heuristic",
                          heuristic_base(negative_count, positive_count),
                          fallback_emotions(negative_count, positive_count)) :
         negative_count \in {CountIn(text_lower, friendliness_words.negative)},
         positive_count \in {CountIn(text_lower, friendliness_words.positive)}})

\* a label that is JSON null
NoLabel == "None"

\* what the completion request of analyze_friendliness brings: the call
\* raises, an error dictionary, a text without a JSON object that has one of
\* the two keys, or an object with a score and a label.  The score is of
\* kind "missing", "text" (a value float() refuses) or "number", then of the
\* value v in thousandths; label is "missing", NoLabel or a string.
FriendlinessReply(k, score, v, label) ==
    [k |-> k, score |-> score, v |-> v, label |-> label]

\* base_score and sentiment after the reply was read; a score that float()
\* refuses leaves both as they were
base_from_reply(reply) ==
    IF reply.k # "json" \/ reply.score = "text"
       \/ (reply.score = "missing" /\ reply.label = "missing")
    THEN [base_score |-> 500, sentiment |-> "neutral"]
    ELSE [base_score |-> IF reply.score = "missing" THEN 500 ELSE reply.v,
          sentiment |-> IF reply.label = "missing" THEN "neutral" ELSE reply.label]

\* AIService.analyze_friendliness(text): with the integration loaded and a
\* token the base score and the label are the reply's and the emotions are
\* those of analyze_emotions, unless the completion request raises; otherwise
\* the keyword heuristic
analyze_friendliness(text, available, n, reply, emotion_reply) ==
    IF available /\ get_access_token(n) = "token" /\ reply.k # "raise"
    THEN FriendlinessDict("ai", base_from_reply(reply),
                          analyze_emotions(text, available, n, emotion_reply).emotions)
    ELSE heuristic_friendliness(LowerSeq(text))

\* the handler of POST /analyze-friendliness on the result r of
\* analyze_friendliness: the response model takes a score and a label that
\* is a string; a label that is None is refused and the handler answers 500
friendliness_route(r) ==
    IF r.sentiment = NoLabel THEN [status |-> 500, path |-> r.path]
    ELSE [status |-> 200, path |-> r.path,
          friendliness_score |-> r.friendliness_score, sentiment |-> r.sentiment]

\* the word lists of _simple_emotion_analysis
simple_emotion_words ==
    [positive |-> <<<<"c_r", "c_a", "c_d">>,
          <<"c_s", "c_ch", "c_a", "c_s", "c_t", "c_l", "c_i", "c_v">>,
          <<"c_o", "c_t", "c_l", "c_i", "c_ch", "c_n", "c_o">>,
          <<"c_h", "c_o", "c_r", "c_o", "c_sh", "c_o">>,
          <<"c_u", "c_s", "c_p", "c_e", "c_h">>,
          <<"c_p", "c_r", "c_i", "c_b", "c_y", "c_l", "c_soft">>,
          <<"c_r", "c_o", "c_s", "c_t">>,
          <<"c_v", "c_y", "c_i", "c_g", "c_r", "c_y", "c_sh">>>>,
     fear |-> <<<<"c_b", "c_o", "c_yu", "c_s", "c_soft">>,
          <<"c_s", "c_t", "c_r", "c_a", "c_h">>,
          <<"c_o", "c_p", "c_a", "c_s", "c_e", "c_n", "c_i", "c_e">>,
          <<"c_r", "c_i", "c_s", "c_k">>,
          <<"c_o", "c_p", "c_a", "c_s", "c_n", "c_o">>,
          <<"c_t", "c_r", "c_e", "c_v", "c_o", "c_g", "c_a">>>>,
     anger |-> <<<<"c_z", "c_l", "c_o", "c_j">>,
          <<"c_z", "c_l", "c_yu", "c_s", "c_soft">>,
          <<"c_r", "c_a", "c_z", "c_o", "c_z", "c_l", "c_i", "c_l", "c_s", "c_ya">>,
          <<"c_n", "c_e", "c_d", "c_o", "c_v", "c_o", "c_l", "c_e", "c_n">>,
          <<"c_p", "c_l", "c_o", "c_h", "c_o">>>>,
     sadness |-> <<<<"c_g", "c_r", "c_u", "c_s", "c_t", "c_n", "c_o">>,
          <<"c_p", "c_e", "c_ch", "c_a", "c_l", "c_soft">>,
          <<"c_p", "c_o", "c_t", "c_e", "c_r", "c_ya">>,
          <<"c_u", "c_b", "c_y", "c_t", "c_o", "c_k">>,
          <<"c_p", "c_l", "c_o", "c_h", "c_o">>>>]

\* the six values before they are divided by their sum, in hundredths
simple_emotion_values(joy_score, fear_score, anger_score, sadness_score) ==
    [joy |-> Min(joy_score + 20, 90),
     fear |-> Min(fear_score + 10, 80),
     anger |-> Min(anger_score + 10, 70),
     sadness |-> Min(sadness_score + 10, 70),
     surprise |-> 10,
     neutral |-> Max(20, 100 - joy_score - fear_score - anger_score - sadness_score - 10)]

\* _simple_emotion_analysis(text): every value divided by the sum of all
simple_emotion_analysis(text) ==
    The({The({Vector(SumOver(w, DOMAIN w), w) :
              w \in {simple_emotion_values(
                         CountIn(text_lower, simple_emotion_words.positive) * 15,
                         CountIn(text_lower, simple_emotion_words.fear) * 20,
                         CountIn(text_lower, simple_emotion_words.anger) * 15,
                         CountIn(text_lower, simple_emotion_words.sadness) * 15)}}) :
         text_lower \in {LowerSeq(text)}})

-----------------------------------------------------------------------------
(* Calls of the friendliness analysis                                       *)

\* the replies of the service to the friendliness request: failures, scores
\* inside and outside 0..1, labels inside and outside the three of the prompt
FriendlinessReplies ==
    { FriendlinessReply("raise", "missing", 0, "missing"),
      FriendlinessReply("error", "missing", 0, "missing"),
      FriendlinessReply("no_json", "missing", 0, "missing"),
      FriendlinessReply("json", "text", 0, "positive"),
      FriendlinessReply("json", "missing", 0, "negative"),
      FriendlinessReply("json", "number", 700, "missing"),
      FriendlinessReply("json", "number", 700, "positive"),
      FriendlinessReply("json", "number", 500, "neutral"),
      FriendlinessReply("json", "number", 200, "negative"),
      FriendlinessReply("json", "number", 7000, "positive"),
      FriendlinessReply("json", "number", 0 - 3000, "negative"),
      FriendlinessReply("json", "number", 600, "mixed"),
      FriendlinessReply("json", "number", 600, NoLabel) }

\* the replies of the service to the emotions request: failures, a vector
\* that sums to 1, one that sums to 2, one of zeros, one with a negative
\* value, one with two keys only, one with a key of its own, and an empty one
EmotionReplies ==
    { EmotionReply("raise", NoVector),
      EmotionReply("error", NoVector),
      EmotionReply("no_json", NoVector),
      EmotionReply("not_numbers", NoVector),
      EmotionReply("emotions", Vector(10, With(ZeroWeights, [joy |-> 7, neutral |-> 3]))),
      EmotionReply("emotions", Vector(10, With(ZeroWeights, [anger |-> 10, sadness |-> 10]))),
      EmotionReply("emotions", Vector(10, ZeroWeights)),
      EmotionReply("emotions", Vector(10, With(ZeroWeights, [joy |-> 20, anger |-> 0 - 10]))),
      EmotionReply("emotions", Vector(10, [joy |-> 5, fear |-> 5])),
      EmotionReply("emotions", Vector(10, [joy |-> 5, disgust |-> 5])),
      EmotionReply("emotions", Vector(10, [k \in {} |-> 0])) }

\* a call of AIService.analyze_friendliness(message).  GIGACHAT_AVAILABLE is
\* set when the module is imported; a call finds it true or false.
AnalyzeFriendliness ==
    /\ pc = "start"
    /\ \E available \in BOOLEAN, reply \in FriendlinessReplies,
          emotion_reply \in EmotionReplies :
          result' = Returned("friendliness",
                             analyze_friendliness(message, available, net, reply,
                                                  emotion_reply))
    /\ pc' = "done"
    /\ UNCHANGED <<message, cache, net, history, today>>

\* a request to POST /analyze-friendliness with the message
FriendlinessRoute ==
    /\ pc = "start"
    /\ \E available \in BOOLEAN, reply \in FriendlinessReplies,
          emotion_reply \in EmotionReplies :
          result' = Returned("route",
                             friendliness_route(
                                 analyze_friendliness(message, available, net, reply,
                                                      emotion_reply)))
    /\ pc' = "done"
    /\ UNCHANGED <<message, cache, net, history, today>>

\* most positive words in a message of SpecFriendliness
MaxPositive == 6

\* most negative words in a message of SpecFriendliness
MaxNegative == 8

\* privet: a greeting without a word of the lists
greeting == <<"C_p", "c_r", "c_i", "c_v", "c_e", "c_t">>

\* a greeting followed by the first p positive and the first n negative words
FriendlinessMessage(p, n) ==
    Join(<<greeting>> \o SubSeq(friendliness_words.positive, 1, p)
                      \o SubSeq(friendliness_words.negative, 1, n), 1 + p + n)

FriendlinessMessages ==
    {FriendlinessMessage(p, n) :
        p \in 0..Min(MaxPositive, Len(friendliness_words.positive)),
        n \in 0..Min(MaxNegative, Len(friendliness_words.negative))}

InitFriendliness ==
    /\ message \in FriendlinessMessages
    /\ result = NoResult
    /\ pc = "start"
    /\ cache = "None"
    /\ net \in Nets
    /\ history = <<>>
    /\ today = Today0

NextFriendliness == AnalyzeFriendliness \/ FriendlinessRoute

SpecFriendliness == InitFriendliness /\ [][NextFriendliness]_vars

-----------------------------------------------------------------------------
(* Calls of the emotion computations                                        *)

\* a call of AIService.analyze_emotions(message)
AnalyzeEmotions ==
    /\ pc = "start"
    /\ \E available \in BOOLEAN, reply \in EmotionReplies :
          result' = Returned("emotions", analyze_emotions(message, available, net, reply))
    /\ pc' = "done"
    /\ UNCHANGED <<message, cache, net, history, today>>

\* a call of _simple_emotion_analysis(message)
SimpleEmotionAnalysis ==
    /\ pc = "start"
    /\ result' = Returned("simple_emotions",
                          [path |-> "simple", emotions |-> simple_emotion_analysis(message)])
    /\ pc' = "done"
    /\ UNCHANGED <<message, cache, net, history, today>>

\* longest message of SpecEmotions, in words of LexEmotions
MaxWordsEmotions == 2

\* a greeting and words of the lists: thanks, glad, angry, bad, afraid,
\* risk, loss, sadly, and an insult
LexEmotions ==
    { greeting,
      emotion_hints.joy[1],
      simple_emotion_words.positive[1],
      simple_emotion_words.anger[2],
      simple_emotion_words.anger[5],
      simple_emotion_words.fear[1],
      simple_emotion_words.fear[4],
      simple_emotion_words.sadness[3],
      emotion_hints.sadness[1],
      friendliness_words.negative[7] }

\* the short messages, and the messages of all words of one list
EmotionMessages ==
    Messages(LexEmotions, MaxWordsEmotions)
    \cup {Join(l, Len(l)) : l \in {simple_emotion_words.positive, simple_emotion_words.fear,
                                   simple_emotion_words.anger, simple_emotion_words.sadness}}

InitEmotions ==
    /\ message \in EmotionMessages
    /\ result = NoResult
    /\ pc = "start"
    /\ cache = "None"
    /\ net \in Nets
    /\ history = <<>>
    /\ today = Today0

NextEmotions == AnalyzeEmotions \/ SimpleEmotionAnalysis \/ AnalyzeFriendliness

SpecEmotions == InitEmotions /\ [][NextEmotions]_vars

-----------------------------------------------------------------------------
(* is_transaction_message                                                   *)

\* the keywords that point to a transaction
transaction_keywords ==
    <<<<"c_p", "c_o", "c_t", "c_r", "c_a", "c_t", "c_i", "c_l">>,
          <<"c_p", "c_o", "c_t", "c_r", "c_a", "c_t", "c_i", "c_l", "c_a">>,
          <<"c_p", "c_o", "c_t", "c_r", "c_a", "c_t", "c_i", "c_l", "c_i">>,
          <<"c_k", "c_u", "c_p", "c_i", "c_l">>,
          <<"c_k", "c_u", "c_p", "c_i", "c_l", "c_a">>,
          <<"c_k", "c_u", "c_p", "c_i", "c_l", "c_i">>,
          <<"c_k", "c_u", "c_p", "c_i", "c_t", "c_soft">>,
          <<"c_z", "c_a", "c_p", "c_l", "c_a", "c_t", "c_i", "c_l">>,
          <<"c_z", "c_a", "c_p", "c_l", "c_a", "c_t", "c_i", "c_l", "c_a">>,
          <<"c_z", "c_a", "c_p", "c_l", "c_a", "c_t", "c_i", "c_l", "c_i">>,
          <<"c_z", "c_a", "c_p", "c_l", "c_a", "c_t", "c_i", "c_t", "c_soft">>,
          <<"c_t", "c_r", "c_a", "c_t", "c_a">>,
          <<"c_t", "c_r", "c_a", "c_t", "c_y">>,
          <<"c_r", "c_a", "c_s", "c_h", "c_o", "c_d">>,
          <<"c_r", "c_a", "c_s", "c_h", "c_o", "c_d", "c_y">>,
          <<"c_z", "c_a", "c_t", "c_r", "c_a", "c_t", "c_i", "c_l">>,
          <<"c_z", "c_a", "c_t", "c_r", "c_a", "c_t", "c_i", "c_l", "c_a">>,
          <<"c_z", "c_a", "c_t", "c_r", "c_a", "c_t", "c_i", "c_l", "c_i">>,
          <<"c_p", "c_o", "c_l", "c_u", "c_ch", "c_i", "c_l">>,
          <<"c_p", "c_o", "c_l", "c_u", "c_ch", "c_i", "c_l", "c_a">>,
          <<"c_p", "c_o", "c_l", "c_u", "c_ch", "c_i", "c_l", "c_i">>,
          <<"c_p", "c_o", "c_l", "c_u", "c_ch", "c_i", "c_t", "c_soft">>,
          <<"c_z", "c_a", "c_r", "c_a", "c_b", "c_o", "c_t", "c_a", "c_l">>,
          <<"c_z", "c_a", "c_r", "c_a", "c_b", "c_o", "c_t", "c_a", "c_l", "c_a">>,
          <<"c_z", "c_a", "c_r", "c_a", "c_b", "c_o", "c_t", "c_a", "c_l", "c_i">>,
          <<"c_z", "c_a", "c_r", "c_a", "c_b", "c_o", "c_t", "c_a", "c_t", "c_soft">>,
          <<"c_d", "c_o", "c_h", "c_o", "c_d">>,
          <<"c_d", "c_o", "c_h", "c_o", "c_d", "c_y">>,
          <<"c_p", "c_r", "c_i", "c_b", "c_y", "c_l", "c_soft">>,
          <<"c_z", "c_a", "c_r", "c_p", "c_l", "c_a", "c_t", "c_a">>,
          <<"c_z", "c_a", "c_r", "c_p", "c_l", "c_a", "c_t", "c_u">>,
          <<"c_d", "c_o", "c_b", "c_a", "c_v", "c_i", "c_t", "c_soft">>,
          <<"c_d", "c_o", "c_b", "c_a", "c_v", "c_soft">>,
          <<"c_d", "c_o", "c_b", "c_a", "c_v", "c_i", "c_t", "c_soft", " ", "c_t", "c_r", "c_a", "c_n", "c_z", "c_a", "c_k", "c_ts", "c_i", "c_yu">>,
          <<"c_z", "c_a", "c_p", "c_i", "c_s", "c_a", "c_t", "c_soft">>,
          <<"c_z", "c_a", "c_p", "c_i", "c_sh", "c_i">>,
          <<"c_z", "c_a", "c_p", "c_i", "c_s", "c_a", "c_t", "c_soft", " ", "c_t", "c_r", "c_a", "c_n", "c_z", "c_a", "c_k", "c_ts", "c_i", "c_yu">>,
          <<"c_v", "c_n", "c_e", "c_s", "c_t", "c_i">>,
          <<"c_v", "c_n", "c_e", "c_s", "c_i">>,
          <<"c_v", "c_n", "c_e", "c_s", "c_t", "c_i", " ", "c_t", "c_r", "c_a", "c_n", "c_z", "c_a", "c_k", "c_ts", "c_i", "c_yu">>>>

\* the unit alternatives of the six amount patterns of
\* is_transaction_message: digits, whitespace, a unit
classify_patterns ==
    <<pattern_1, pattern_2, pattern_3, pattern_4, pattern_5, << <<"c_r", ".">> >> >>

\* the words a question opens with
question_words ==
    <<<<"c_k", "c_a", "c_k">>,
          <<"c_ch", "c_t", "c_o">>,
          <<"c_p", "c_o", "c_ch", "c_e", "c_m", "c_u">>,
          <<"c_z", "c_a", "c_ch", "c_e", "c_m">>,
          <<"c_k", "c_o", "c_g", "c_d", "c_a">>,
          <<"c_g", "c_d", "c_e">>,
          <<"c_k", "c_t", "c_o">>,
          <<"c_s", "c_k", "c_o", "c_l", "c_soft", "c_k", "c_o">>,
          <<"c_k", "c_a", "c_k", "c_o", "c_j">>,
          <<"c_k", "c_a", "c_k", "c_a", "c_ya">>>>

\* any(re.search(pattern, message_lower, re.IGNORECASE) ...): digits,
\* then whitespace or none, then a unit of one of the patterns
has_amount(message_lower) ==
    \E i \in 1..Len(message_lower) :
        /\ IsDigit(message_lower[i])
        /\ \E p \in 1..Len(classify_patterns) :
               AltLen(message_lower, SpaceRunEnd(message_lower, DigitRunEnd(message_lower, i)),
                      classify_patterns[p]) > 0

\* message_lower.startswith(word) for one of the words
StartsWithAny(message_lower, words) ==
    \E k \in 1..Len(words) :
        /\ Len(words[k]) <= Len(message_lower)
        /\ SubSeq(message_lower, 1, Len(words[k])) = words[k]

\* is_transaction_message(user_message)
is_transaction_message(user_message) ==
    The({The({
        IF has_transaction_keyword \/ amount THEN TRUE
        ELSE IF (StartsWithAny(message_lower, question_words)
                 \/ Contains(user_message, <<"?">>))
                /\ ~amount /\ ~has_transaction_keyword
        THEN FALSE
        ELSE amount :
        has_transaction_keyword \in {AnyKeyword(message_lower, transaction_keywords)},
        amount \in {has_amount(message_lower)} }) :
        message_lower \in {LowerSeq(user_message)} })

\* a call of is_transaction_message(message)
IsTransactionMessage ==
    /\ pc = "start"
    /\ result' = Returned("classification",
                          [transaction |-> is_transaction_message(message)])
    /\ pc' = "done"
    /\ UNCHANGED <<message, cache, net, history, today>>

\* longest message of SpecClassify, in words of LexClassify
MaxWordsClassify == 2

\* how much, how, bought, to add, bread, 50 roubles, a bare number, a
\* question mark, hello
LexClassify ==
    { <<"C_s", "c_k", "c_o", "c_l", "c_soft", "c_k", "c_o">>, <<"C_k", "c_a", "c_k">>, <<"c_k", "c_u", "c_p", "c_i", "c_l">>, <<"c_d", "c_o", "c_b", "c_a", "c_v", "c_i", "c_t", "c_soft">>, <<"c_h", "c_l", "c_e", "c_b">>, <<"5", "0", " ", "c_r", "c_u", "c_b", "c_l", "c_e", "c_j">>, <<"5", "0", "0">>,
      <<"?">>, <<"c_p", "c_r", "c_i", "c_v", "c_e", "c_t">> }

\* the messages of test_message_classification
classification_cases ==
    { <<"C_k", "c_u", "c_p", "c_i", "c_l", " ", "c_h", "c_l", "c_e", "c_b", " ", "c_z", "c_a", " ", "5", "0", " ", "c_r", "c_u", "c_b", "c_l", "c_e", "c_j">>,
      <<"C_p", "c_o", "c_l", "c_u", "c_ch", "c_i", "c_l", " ", "c_z", "c_a", "c_r", "c_p", "c_l", "c_a", "c_t", "c_u", " ", "8", "5", "0", "0", "0">>,
      <<"C_p", "c_o", "c_t", "c_r", "c_a", "c_t", "c_i", "c_l", " ", "2", "0", "0", "0", " ", "c_n", "c_a", " ", "c_o", "c_b", "c_e", "c_d">>,
      <<"C_z", "c_a", "c_r", "c_a", "c_b", "c_o", "c_t", "c_a", "c_l", " ", "3", "0", "0", "0", "0", " ", "c_r", "c_u", "c_b", "c_l", "c_e", "c_j">>,
      <<"C_z", "c_a", "c_p", "c_l", "c_a", "c_t", "c_i", "c_l", " ", "c_z", "c_a", " ", "c_i", "c_n", "c_t", "c_e", "c_r", "c_n", "c_e", "c_t", " ", "5", "0", "0", " ", "c_r", "c_u", "c_b", "c_l", "c_e", "c_j">>,
      <<"C_k", "c_u", "c_p", "c_i", "c_l", " ", "c_p", "c_r", "c_o", "c_d", "c_u", "c_k", "c_t", "c_y", " ", "c_n", "c_a", " ", "1", "5", "0", "0", " ", "c_r", "c_u", "c_b", "c_l", "c_e", "c_j">>,
      <<"C_k", "c_a", "c_k", " ", "c_s", "c_eh", "c_k", "c_o", "c_n", "c_o", "c_m", "c_i", "c_t", "c_soft", " ", "c_d", "c_e", "c_n", "c_soft", "c_g", "c_i", "?">>,
      <<"C_ch", "c_t", "c_o", " ", "c_t", "c_a", "c_k", "c_o", "c_e", " ", "c_b", "c_yu", "c_d", "c_zh", "c_e", "c_t", "?">>,
      <<"C_p", "c_o", "c_ch", "c_e", "c_m", "c_u", " ", "c_ya", " ", "c_t", "c_r", "c_a", "c_ch", "c_u", " ", "c_t", "c_a", "c_k", " ", "c_m", "c_n", "c_o", "c_g", "c_o", "?">>,
      <<"C_k", "c_o", "c_g", "c_d", "c_a", " ", "c_l", "c_u", "c_ch", "c_sh", "c_e", " ", "c_i", "c_n", "c_v", "c_e", "c_s", "c_t", "c_i", "c_r", "c_o", "c_v", "c_a", "c_t", "c_soft", "?">>,
      <<"C_g", "c_d", "c_e", " ", "c_m", "c_o", "c_zh", "c_n", "c_o", " ", "c_v", "c_z", "c_ya", "c_t", "c_soft", " ", "c_k", "c_r", "c_e", "c_d", "c_i", "c_t", "?">>,
      <<"C_s", "c_k", "c_o", "c_l", "c_soft", "c_k", "c_o", " ", "c_n", "c_u", "c_zh", "c_n", "c_o", " ", "c_o", "c_t", "c_k", "c_l", "c_a", "c_d", "c_y", "c_v", "c_a", "c_t", "c_soft", "?">>,
      <<"C_k", "c_a", "c_k", "c_o", "c_j", " ", "c_b", "c_a", "c_n", "c_k", " ", "c_l", "c_u", "c_ch", "c_sh", "c_e", "?">>,
      <<"C_k", "c_a", "c_k", "c_a", "c_ya", " ", "c_p", "c_r", "c_o", "c_ts", "c_e", "c_n", "c_t", "c_n", "c_a", "c_ya", " ", "c_s", "c_t", "c_a", "c_v", "c_k", "c_a", "?">>,
      <<"C_k", "c_a", "c_k", " ", "c_p", "c_r", "c_a", "c_v", "c_i", "c_l", "c_soft", "c_n", "c_o", " ", "c_v", "c_e", "c_s", "c_t", "c_i", " ", "c_b", "c_yu", "c_d", "c_zh", "c_e", "c_t", "?">>,
      <<"C_ch", "c_t", "c_o", " ", "c_d", "c_e", "c_l", "c_a", "c_t", "c_soft", " ", "c_s", " ", "c_d", "c_o", "c_l", "c_g", "c_a", "c_m", "c_i", "?">>,
      <<"C_s", "c_k", "c_o", "c_l", "c_soft", "c_k", "c_o", " ", "c_ya", " ", "c_p", "c_o", "c_t", "c_r", "c_a", "c_t", "c_i", "c_l", " ", "c_v", " ", "c_eh", "c_t", "c_o", "c_m", " ", "c_m", "c_e", "c_s", "c_ya", "c_ts", "c_e", "?">>,
      <<"C_k", "c_a", "c_k", " ", "c_d", "c_o", "c_b", "c_a", "c_v", "c_i", "c_t", "c_soft", " ", "c_t", "c_r", "c_a", "c_n", "c_z", "c_a", "c_k", "c_ts", "c_i", "c_yu", "?">>,
      <<"C_k", "c_u", "c_p", "c_i", "c_l", " ", "c_h", "c_l", "c_e", "c_b", ",", " ", "c_s", "c_k", "c_o", "c_l", "c_soft", "c_k", "c_o", " ", "c_eh", "c_t", "c_o", " ", "c_s", "c_t", "c_o", "c_i", "c_t", "?">>,
      <<"C_ch", "c_t", "c_o", " ", "c_d", "c_e", "c_l", "c_a", "c_t", "c_soft", " ", "c_e", "c_s", "c_l", "c_i", " ", "c_p", "c_o", "c_t", "c_r", "c_a", "c_t", "c_i", "c_l", " ", "c_s", "c_l", "c_i", "c_sh", "c_k", "c_o", "c_m", " ", "c_m", "c_n", "c_o", "c_g", "c_o", "?">> }

InitClassify ==
    /\ message \in Messages(LexClassify, MaxWordsClassify) \cup classification_cases
    /\ result = NoResult
    /\ pc = "start"
    /\ cache = "None"
    /\ net = "up"
    /\ history = <<>>
    /\ today = Today0

NextClassify == IsTransactionMessage

SpecClassify == InitClassify /\ [][NextClassify]_vars

-----------------------------------------------------------------------------
(* Calls of detect_available_model and of the client's operations           *)

\* a call of detect_available_model(): the service answers the test
\* requests in any way
DetectAvailableModel ==
    /\ pc = "start"
    /\ pc' = "done"
    /\ UNCHANGED <<message, net, history, today>>
    /\ \E probe \in [1..Len(PREFERRED_MODELS) -> ProbeOutcomes] :
          \E d \in {detect_available_model(cache, net, probe)} :
              /\ cache' = d.cache
              /\ result' = IF d.raised THEN Raised
                           ELSE Returned("detect",
                                         [cache_before |-> cache, probe |-> probe,
                                          model |-> d.model, probes |-> d.probes])

\* what a call of an operation of a new client leaves as its result: the
\* operation, the client's model, the answers to the requests, the model of
\* the detection after a 404, and what the operation returned and counted
ClientResult(op, d1, resp1, d2, resp2, r) ==
    [op |-> op, model |-> d1.model, cache_before |-> d1.cache,
     resp1 |-> resp1, second_model |-> d2.model, resp2 |-> resp2,
     ret |-> r.ret, requests |-> r.requests, resets |-> r.resets,
     detections |-> r.detections]

\* GigaChatAIClient().extract_transactions(message): the constructor takes
\* the model from detect_available_model(), then the operation runs
ClientExtractTransactions ==
    /\ pc = "start"
    /\ pc' = "done"
    /\ UNCHANGED <<message, net, history, today>>
    /\ \E d1 \in DetectResults(cache, net) :
          IF d1.raised
          THEN result' = Raised /\ cache' = d1.cache
          ELSE \E resp1 \in Responses, d2 \in DetectResults("None", net), resp2 \in Responses :
                  \E r \in {client_extract_transactions(d1.model, d1.cache, net, resp1, d2,
                                                        resp2)} :
                      /\ cache' = r.cache
                      /\ result' = Returned("client",
                                            ClientResult("extract_transactions", d1, resp1,
                                                         d2, resp2, r))

\* GigaChatAIClient().analyze_emotions(message)
ClientAnalyzeEmotions ==
    /\ pc = "start"
    /\ pc' = "done"
    /\ UNCHANGED <<message, net, history, today>>
    /\ \E d1 \in DetectResults(cache, net) :
          IF d1.raised
          THEN result' = Raised /\ cache' = d1.cache
          ELSE \E resp1 \in Responses :
                  \E r \in {client_analyze_emotions(d1.model, d1.cache, net, resp1)} :
                      /\ cache' = r.cache
                      /\ result' = Returned("client",
                                            ClientResult("analyze_emotions", d1, resp1,
                                                         d1, resp1, r))

NextModels ==
    \/ DetectAvailableModel
    \/ ClientExtractTransactions
    \/ ClientAnalyzeEmotions
    \/ NextRequest

\* the calls of one process, from its first: the cache is empty
SpecModels == InitFallback /\ [][NextModels]_vars


\* ---- messages with a bare percentage ----

\* what stands before the number: nothing; rasxody (expenses)
BarePrefixes == { <<>>, <<"c_r", "c_a", "c_s", "c_h", "c_o", "c_d", "c_y", " ">> }

\* the numbers 1, 30, 99, 7,5 and 12.5 (valid), 0, 100 and 150 (out of
\* range), as written and as the fraction num/den
BareNumbers ==
    { [text |-> <<"1">>, num |-> 1, den |-> 1],
      [text |-> <<"3", "0">>, num |-> 30, den |-> 1],
      [text |-> <<"9", "9">>, num |-> 99, den |-> 1],
      [text |-> <<"7", ",", "5">>, num |-> 75, den |-> 10],
      [text |-> <<"1", "2", ".", "5">>, num |-> 125, den |-> 10],
      [text |-> <<"0">>, num |-> 0, den |-> 1],
      [text |-> <<"1", "0", "0">>, num |-> 100, den |-> 1],
      [text |-> <<"1", "5", "0">>, num |-> 150, den |-> 1] }

\* what follows the percent sign: the end of the message; a space; a full
\* stop; an exclamation mark; a comma and more text; a space and v mesyac (a
\* month); the letters ot (of); a digit
BareFollowers ==
    { <<>>, <<" ">>, <<".">>, <<"!">>, <<",", " ", "c_d", "c_a">>, <<" ", "c_v", " ", "c_m", "c_e", "c_s", "c_ya", "c_ts">>, <<"c_o", "c_t">>, <<"5">> }

BareMessage(prefix, number, follower) == prefix \o number.text \o <<"%">> \o follower

BareMessages ==
    {BareMessage(p, n, f) : p \in BarePrefixes, n \in BareNumbers, f \in BareFollowers}

InitBarePercent ==
    /\ message \in BareMessages
    /\ result = NoResult
    /\ pc = "start"
    /\ cache = "None"
    /\ net = "up"
    /\ history = <<>>
    /\ today = Today0

NextBarePercent == ExtractPercent

SpecBarePercent == InitBarePercent /\ [][NextBarePercent]_vars

-----------------------------------------------------------------------------
(* The analysis texts generated from a transaction list                    *)

\* what the sentences of the text say. The loop over the transactions fills
\* categories (CategoryKeys: its keys in the order of their first appearance,
\* CategoryAmount: its values, a null amount counted as 0); the dominant
\* category is max(categories.items(), key=lambda x: x[1])[0], the first key
\* with the greatest value. The text names the counts, the totals above 0,
\* the balance, the categories, the recommendations (over_80 as the caller
\* decides it, many_expenses for expense_count > income_count * 2,
\* save_balance for balance > 0, and those the caller always gives) and
\* the forecast.
AnalysisText(transactions, total_income, total_expense, over_80, always) ==
    LET CountType(type) ==
            Cardinality({k \in 1..Len(transactions) : transactions[k].type = type})
        RECURSIVE CategoryKeys(_)
        CategoryKeys(n) ==
            IF n = 0 THEN <<>>
            ELSE IF \E k \in 1..(n - 1) : transactions[k].category = transactions[n].category
            THEN CategoryKeys(n - 1)
            ELSE Append(CategoryKeys(n - 1), transactions[n].category)
        RECURSIVE CategoryAmount(_, _)
        CategoryAmount(cat, n) ==
            IF n = 0 THEN 0
            ELSE CategoryAmount(cat, n - 1)
                 + (IF transactions[n].category = cat /\ transactions[n].amount # NoAmount
                    THEN transactions[n].amount ELSE 0)
        keys == CategoryKeys(Len(transactions))
        value(i) == CategoryAmount(keys[i], Len(transactions))
        dominant == CHOOSE i \in 1..Len(keys) :
                        /\ \A j \in 1..Len(keys) : value(j) <= value(i)
                        /\ \A j \in 1..(i - 1) : value(j) < value(i)
        balance == total_income - total_expense
    IN [kind |-> "analysis",
        count |-> Len(transactions),
        income_count |-> CountType("income"),
        expense_count |-> CountType("expense"),
        income_named |-> IF total_income > 0 THEN total_income ELSE 0,
        expense_named |-> IF total_expense > 0 THEN total_expense ELSE 0,
        balance |-> balance,
        categories |-> keys,
        dominant |-> IF keys = <<>> THEN "None" ELSE keys[dominant],
        dominant_sum |-> IF keys = <<>> THEN 0 ELSE value(dominant),
        recommendations |->
            (IF over_80 THEN {"over_80"} ELSE {})
            \cup (IF CountType("expense") > CountType("income") * 2
                  THEN {"many_expenses"} ELSE {})
            \cup (IF balance > 0 THEN {"save_balance"} ELSE {})
            \cup always,
        forecast |-> IF balance > 0 THEN "stable" ELSE "revise"]

\* no text: the value of a call that raised, or the text of an empty list
NoText(kind) ==
    [kind |-> kind, count |-> 0, income_count |-> 0, expense_count |-> 0,
     income_named |-> 0, expense_named |-> 0, balance |-> 0, categories |-> <<>>,
     dominant |-> "None", dominant_sum |-> 0, recommendations |-> {},
     forecast |-> "None"]

\* extracted_info without the totals
NoTotals == [given |-> FALSE, total_income |-> 0, total_expense |-> 0]

\* GigaChatAIClient._generate_analysis_from_transactions(transactions,
\* extracted_info): the totals are those of extracted_info when it holds
\* them; the loop over the categories adds t.get('amount', 0) to a number,
\* which raises TypeError for an amount that is None
generate_analysis_from_transactions(transactions, extracted_info) ==
    IF transactions = <<>> THEN NoText("not_found")
    ELSE IF \E k \in 1..Len(transactions) : transactions[k].amount = NoAmount
    THEN NoText("TypeError")
    ELSE LET total_income == IF extracted_info.given THEN extracted_info.total_income
                             ELSE SumAmounts(transactions, "income", Len(transactions))
             total_expense == IF extracted_info.given THEN extracted_info.total_expense
                              ELSE SumAmounts(transactions, "expense", Len(transactions))
         IN AnalysisText(transactions, total_income, total_expense,
                         total_expense * 10 > total_income * 8, {})

\* _generate_fallback_analysis(transactions, total_income, total_expense):
\* the loop adds (t.get('amount', 0) or 0), and the text is made for an
\* empty list as well
generate_fallback_analysis(transactions, total_income, total_expense) ==
    AnalysisText(transactions, total_income, total_expense,
                 total_income > 0 => total_expense * 10 > total_income * 8,
                 {"keep_records"})

\* the most transactions of a list handed to a generator
MaxAnalysisTransactions == 2

\* transactions as the service and the simple extraction return them, by
\* the fields the generators read: with an amount, with the amount 0 and
\* with the amount null
AnalysisPool ==
    { [type |-> "expense", category |-> "Food", amount |-> 5 * Scale],
      [type |-> "expense", category |-> "Food", amount |-> NoAmount],
      [type |-> "expense", category |-> "Transport", amount |-> 20 * Scale],
      [type |-> "income", category |-> "Salary", amount |-> 100 * Scale],
      [type |-> "income", category |-> "Other", amount |-> NoAmount],
      [type |-> "expense", category |-> "Other", amount |-> 0] }

AnalysisLists == UNION {[1..k -> AnalysisPool] : k \in 0..MaxAnalysisTransactions}

\* extracted_info without totals, with the totals 0, and with totals
ExtractedInfos ==
    { NoTotals,
      [given |-> TRUE, total_income |-> 0, total_expense |-> 0],
      [given |-> TRUE, total_income |-> 100 * Scale, total_expense |-> 85 * Scale] }

\* what a call of a generator, or of the function that calls it, leaves
AnalysisResult(source, transactions, text) ==
    [raised |-> text.kind = "TypeError",
     source |-> source,
     dict |-> [transactions |-> transactions, analysis |-> text]]

\* a call of client._generate_analysis_from_transactions
GenerateAnalysisFromTransactions ==
    /\ pc = "start"
    /\ \E transactions \in AnalysisLists, extracted_info \in ExtractedInfos :
          result' = AnalysisResult("generate_analysis", transactions,
                        generate_analysis_from_transactions(transactions, extracted_info))
    /\ pc' = "done"
    /\ UNCHANGED <<message, cache, net, history, today>>

\* a call of _generate_fallback_analysis, with the totals its caller
\* _simple_transaction_extraction computes
GenerateFallbackAnalysis ==
    /\ pc = "start"
    /\ \E transactions \in AnalysisLists :
          result' = AnalysisResult("generate_fallback", transactions,
                        generate_fallback_analysis(transactions,
                            SumAmounts(transactions, "income", Len(transactions)),
                            SumAmounts(transactions, "expense", Len(transactions))))
    /\ pc' = "done"
    /\ UNCHANGED <<message, cache, net, history, today>>

\* an analysis shorter than this is generated anew
ShortAnalysis == 300

\* the dictionaries client.extract_transactions returns with transactions:
\* the analysis is absent (length 0), short or long enough
ServiceDicts ==
    {[transactions |-> ts, analysis_len |-> n, extracted_info |-> i] :
        ts \in AnalysisLists \ {<<>>},
        n \in {0, ShortAnalysis - 1, ShortAnalysis},
        i \in ExtractedInfos}

\* the analysis of the service, kept
ServiceText == [NoText("service") EXCEPT !.forecast = "service"]

\* a call of extract_transactions_with_fallback(message) with the dictionary
\* of the service in view: a dictionary with transactions whose analysis is
\* absent or shorter than ShortAnalysis gets the generated analysis, and an
\* exception of the generator leaves the function; without a dictionary of
\* the service the simple extraction and its analysis are returned
ExtractWithFallbackAnalysis ==
    /\ pc = "start"
    /\ pc' = "done"
    /\ UNCHANGED <<message, net, history, today>>
    /\ \E d1 \in DetectResults(cache, net) :
          LET simple == simple_transaction_extraction(message)
              simple_analysis ==
                  generate_fallback_analysis(simple.transactions,
                                             simple.extracted_info.total_income,
                                             simple.extracted_info.total_expense)
          IN
          IF d1.raised
          THEN result' = Raised /\ cache' = d1.cache
          ELSE IF ~is_available(net)
          THEN /\ result' = AnalysisResult("with_fallback", simple.transactions, simple_analysis)
               /\ cache' = d1.cache
          ELSE \E resp1 \in Responses, d2 \in DetectResults("None", net), resp2 \in Responses :
                  \E r \in {client_extract_transactions(d1.model, d1.cache, net, resp1, d2, resp2)} :
                      /\ cache' = r.cache
                      /\ IF r.ret = "dict"
                         THEN \E d \in ServiceDicts :
                                 result' = AnalysisResult("with_fallback", d.transactions,
                                     IF d.analysis_len < ShortAnalysis
                                     THEN generate_analysis_from_transactions(
                                              d.transactions, d.extracted_info)
                                     ELSE ServiceText)
                         ELSE result' = AnalysisResult("with_fallback", simple.transactions,
                                                       simple_analysis)

NextAnalysis ==
    \/ GenerateAnalysisFromTransactions
    \/ GenerateFallbackAnalysis
    \/ ExtractWithFallbackAnalysis

SpecAnalysis == InitFallback /\ [][NextAnalysis]_vars

-----------------------------------------------------------------------------
(* Claims about amounts, checked under SpecUnits                           *)

Done == pc = "done" /\ ~result.raised

Transactions == result.dict.transactions

Info == result.dict.extracted_info

RECURSIVE OccurrencesFrom(_, _)
\* every match of the unit patterns p.. in the order the loops visit them,
\* with the pattern that matched and the number it carries
OccurrencesFrom(m, p) ==
    IF p > Len(amount_patterns) THEN <<>>
    ELSE LET ms == FindIter(m, amount_patterns[p], 1)
         IN  [k \in 1..Len(ms) |->
                 [pattern |-> p, start |-> ms[k].start, end |-> ms[k].end,
                  number |-> ParseFloat(SubSeq(m, ms[k].start, ms[k].numEnd))]]
             \o OccurrencesFrom(m, p + 1)

\* the occurrences that carry a positive number
PositiveOccurrences(m) == SelectSeq(OccurrencesFrom(m, 1), LAMBDA o : o.number > 0)

\* no amount is found: no positive number with a unit and no positive bare number
NoAmountFound(m) == PositiveOccurrences(m) = <<>> /\ BareCandidates(m) = <<>>

\* C2: a message in which no positive amount is found gives exactly one
\* transaction, with amount null and confidence 0.3; the list is never empty
C2_PlaceholderWhenNoAmount ==
    (Done /\ result.source = "fallback") =>
        /\ Len(Transactions) >= 1
        /\ NoAmountFound(message) =>
              /\ Len(Transactions) = 1
              /\ Transactions[1].amount = NoAmount
              /\ Transactions[1].confidence = 3

\* a message with a number in it, none positive, was extracted
C2_Witness ==
    /\ Done /\ result.source = "fallback"
    /\ NoAmountFound(message)
    /\ \E k \in 1..Len(message) : IsDigit(message[k])
    /\ Len(Transactions) = 1 /\ Transactions[1].amount = NoAmount

\* the multiplier the unit class of pattern p stands for: pattern 2 holds the
\* thousand tokens, pattern 3 the million tokens, the others plain currencies
ClassMultiplier(p) == IF p = 2 THEN 1000 ELSE IF p = 3 THEN 1000000 ELSE 1

\* C5: the amount of an occurrence is its number times 1000 for a thousand
\* token, times 1,000,000 for a million token, and the number itself for a
\* plain currency token
C5_UnitMultiplierByClass ==
    (Done /\ result.source = "fallback") =>
        LET occ == PositiveOccurrences(message)
        IN  \A k \in 1..Len(occ) :
                k <= 5 => Transactions[k].amount
                              = occ[k].number * ClassMultiplier(occ[k].pattern)

\* the spans of the occurrences the extraction counts: the unit matches with a
\* positive number or, when there is none, the positive bare numbers
OccurrenceSpans(m) ==
    LET occ == PositiveOccurrences(m)
        bare == BareCandidates(m)
    IN  IF occ # <<>> THEN {<<occ[k].start, occ[k].end>> : k \in 1..Len(occ)}
        ELSE {<<bare[k].start, bare[k].end>> : k \in 1..Len(bare)}

RECURSIVE SumOfType(_, _, _)
\* sum of the amounts of the transactions of one type among ts[1..n]
SumOfType(ts, type, n) ==
    IF n = 0 THEN 0
    ELSE SumOfType(ts, type, n - 1) + (IF ts[n].type = type THEN ts[n].amount ELSE 0)

\* C6: n <= 5 occurrences give exactly n transactions, one per occurrence and
\* none twice (the candidates are distinct, non-overlapping spans of the
\* message); the totals are the sums by type and the count is the length
C6_OnePerOccurrence ==
    (Done /\ result.source = "fallback") =>
        LET spans == OccurrenceSpans(message)
            n == Cardinality(spans)
            cands == amounts_with_context(message)
        IN  (n >= 1 /\ n <= 5) =>
               /\ Len(Transactions) = n
               /\ {<<cands[k].start, cands[k].end>> : k \in 1..Len(cands)} = spans
               /\ \A i, j \in 1..Len(cands) :
                     i # j => cands[i].end < cands[j].start \/ cands[j].end < cands[i].start
               /\ \A k \in 1..n : Transactions[k].amount = cands[k].amount
               /\ Info.total_income = SumOfType(Transactions, "income", n)
               /\ Info.total_expense = SumOfType(Transactions, "expense", n)
               /\ Info.transactions_count = n

\* amounts 50 and 80 gave two expenses summing to 130
C6_Witness ==
    /\ Done /\ result.source = "fallback"
    /\ Len(Transactions) = 2
    /\ Transactions[1].amount = 50 * Scale /\ Transactions[2].amount = 80 * Scale
    /\ Transactions[1].type = "expense" /\ Transactions[2].type = "expense"
    /\ Info.total_expense = 130 * Scale /\ Info.total_income = 0

-----------------------------------------------------------------------------
(* Claims about type, category and confidence, checked under SpecTypes     *)

\* some keyword of kws stands wholly within positions lo..hi of m, whatever
\* the case of its letters
KeywordWithin(m, kws, lo, hi) ==
    \E i \in 1..Len(kws) :
        \E p \in lo..(hi - Len(kws[i]) + 1) :
            \A k \in 1..Len(kws[i]) : Lower(m[p + k - 1]) = kws[i][k]

\* first and last position of the window of the candidate c of message m:
\* 50 characters either side of the matched span, cut at the message's ends
WindowLo(c) == IF c.start - 50 < 1 THEN 1 ELSE c.start - 50

WindowHi(m, c) == IF c.end + 50 > Len(m) THEN Len(m) ELSE c.end + 50

\* the type the rule gives a text: income exactly when it holds an income
\* keyword and no expense keyword
RuleType(m, lo, hi) ==
    IF KeywordWithin(m, income_keywords, lo, hi)
       /\ ~KeywordWithin(m, expense_keywords, lo, hi)
    THEN "income" ELSE "expense"

\* C7: every transaction that carries an amount is typed from its own window
\* of 50 characters either side of the amount, not from the whole message;
\* the test message gives expenses of 150 and an income of 10000
C7_TypeFromOwnWindow ==
    (Done /\ result.source = "fallback") =>
        LET cands == amounts_with_context(message)
        IN  /\ \A k \in 1..Len(Transactions) :
                   Transactions[k].amount # NoAmount =>
                       Transactions[k].type
                           = RuleType(message, WindowLo(cands[k]), WindowHi(message, cands[k]))
            /\ message = test_message =>
                   /\ Info.total_expense = 150 * Scale
                   /\ Info.total_income = 10000 * Scale

\* one message gave an income and an expense, and the income keyword of the
\* message lies outside the window of the expense
C7_Witness ==
    /\ Done /\ result.source = "fallback"
    /\ Len(Transactions) = 2
    /\ Transactions[1].type = "income" /\ Transactions[2].type = "expense"
    /\ Transactions[2].amount # NoAmount
    /\ ~KeywordWithin(message, expense_keywords, 1, Len(message))

\* C8: the type rule holds for every transaction, the one without an amount
\* included, whose text is the whole message
C8_TypeRuleEveryTransaction ==
    (Done /\ result.source = "fallback") =>
        LET cands == amounts_with_context(message)
        IN  \A k \in 1..Len(Transactions) :
                Transactions[k].type
                    = IF Transactions[k].amount = NoAmount
                      THEN RuleType(message, 1, Len(message))
                      ELSE RuleType(message, WindowLo(cands[k]), WindowHi(message, cands[k]))

\* the fixed order in which the categories are tried
CategoryOrder ==
    <<"Food", "Transport", "Entertainment", "Health", "Shopping", "Housing", "Work", "Bills">>

\* the keywords of the category called name
KeywordsOf(name) ==
    category_keywords[CHOOSE c \in 1..Len(category_keywords) :
                          category_keywords[c].category = name].keywords

\* the category the rule gives a text: the first of the fixed order with a
\* keyword in it, Other when none has one
RuleCategory(m, lo, hi) ==
    LET hits == {i \in 1..Len(CategoryOrder) :
                    KeywordWithin(m, KeywordsOf(CategoryOrder[i]), lo, hi)}
    IN  IF hits = {} THEN "Other"
        ELSE CategoryOrder[CHOOSE i \in hits : \A j \in hits : i <= j]

\* first and last position of the text the k-th transaction was made from:
\* its window, or the whole message for the transaction without an amount
TextLo(k) ==
    IF Transactions[k].amount = NoAmount THEN 1
    ELSE WindowLo(amounts_with_context(message)[k])

TextHi(k) ==
    IF Transactions[k].amount = NoAmount THEN Len(message)
    ELSE WindowHi(message, amounts_with_context(message)[k])

\* C9: the category of a transaction is the first category of the fixed order
\* with a keyword in the transaction's text, Other when there is none, and is
\* always one of the nine names
C9_FirstCategoryInOrder ==
    (Done /\ result.source = "fallback") =>
        \A k \in 1..Len(Transactions) :
            /\ Transactions[k].category = RuleCategory(message, TextLo(k), TextHi(k))
            /\ Transactions[k].category
                   \in {CategoryOrder[i] : i \in 1..Len(CategoryOrder)} \cup {"Other"}

\* a window with a Transport keyword and, after it, a Food keyword gave Food
C9_Witness ==
    /\ Done /\ result.source = "fallback"
    /\ Len(Transactions) >= 1
    /\ Transactions[1].amount # NoAmount
    /\ \E p, q \in TextLo(1)..TextHi(1) :
          /\ p < q
          /\ q + 3 <= TextHi(1)
          /\ KeywordWithin(message, kw_Transport, p, p + 4)
          /\ KeywordWithin(message, kw_Food, q, q + 3)
    /\ Transactions[1].category = "Food"

\* some field of the k-th transaction is a default: no amount, category
\* Other, a generic title, or a type no keyword decided
Defaulted(k) ==
    \/ Transactions[k].amount = NoAmount
    \/ Transactions[k].category = "Other"
    \/ Transactions[k].title \in {TitleIncome, TitleExpense}
    \/ /\ ~KeywordWithin(message, income_keywords, TextLo(k), TextHi(k))
       /\ ~KeywordWithin(message, expense_keywords, TextLo(k), TextHi(k))

\* C10 as stated: a transaction with a defaulted field has strictly lower
\* confidence than a transaction with every field found
C10_DefaultedLowerConfidence ==
    (Done /\ result.source = "fallback") =>
        \A i, j \in 1..Len(Transactions) :
            (Defaulted(i) /\ ~Defaulted(j)) =>
                Transactions[i].confidence < Transactions[j].confidence

\* C10 amended: the transaction without an amount has confidence 0.3, strictly
\* lower than the 0.6 every transaction with an amount has, whether or not
\* its type, category or title is a default
C10_ConfidenceByAmountOnly ==
    (Done /\ result.source = "fallback") =>
        \A k \in 1..Len(Transactions) :
            /\ Transactions[k].amount = NoAmount => Transactions[k].confidence = 3
            /\ Transactions[k].amount # NoAmount => Transactions[k].confidence = 6
            /\ 3 < 6

\* one message gave a transaction with every field found and one with
\* defaults, both with an amount and both with confidence 0.6
C10_Witness ==
    /\ Done /\ result.source = "fallback"
    /\ \E i, j \in 1..Len(Transactions) :
          /\ Defaulted(i) /\ ~Defaulted(j)
          /\ Transactions[i].amount # NoAmount
          /\ Transactions[i].confidence = 6 /\ Transactions[j].confidence = 6

-----------------------------------------------------------------------------
(* Claim about the limit on transactions, checked under SpecCap            *)

RECURSIVE SumCandidates(_, _)
\* sum of the amounts of the candidates cands[1..n]
SumCandidates(cands, n) ==
    IF n = 0 THEN 0 ELSE SumCandidates(cands, n - 1) + cands[n].amount

\* C4: a result holds at most 5 transactions; of more than five occurrences
\* the first five are kept, and the later ones are in no transaction and in
\* no total
C4_AtMostFive ==
    (Done /\ result.source = "fallback") =>
        LET cands == amounts_with_context(message)
        IN  /\ Len(Transactions) <= 5
            /\ Len(cands) > 5 =>
                  /\ Len(Transactions) = 5
                  /\ \A k \in 1..5 : Transactions[k].amount = cands[k].amount
                  /\ Info.total_income + Info.total_expense = SumCandidates(cands, 5)
                  /\ Info.transactions_count = 5

\* six occurrences were found, the sixth of 7000 left out of totals of 14015
C4_Witness ==
    /\ Done /\ result.source = "fallback"
    /\ Len(amounts_with_context(message)) = 6
    /\ amounts_with_context(message)[6].amount = 7000 * Scale
    /\ Len(Transactions) = 5
    /\ Info.total_income + Info.total_expense = 14015 * Scale

-----------------------------------------------------------------------------
(* Claim about the route's extraction, checked under SpecRoute             *)

\* C3: the extraction behind the route never returns an empty list; a
\* message without an amount gives one placeholder of low confidence
C3_RouteNeverEmpty ==
    (Done /\ result.source = "route") =>
        /\ Len(Transactions) >= 1
        /\ NoAmountFound(message) =>
              /\ Len(Transactions) = 1
              /\ Transactions[1].amount = NoAmount
              /\ Transactions[1].confidence < 5

-----------------------------------------------------------------------------
(* Claim about the unavailable service, checked under SpecFallback         *)

\* the token request returns no token or raises
Unavailable == net \in {"no_token", "down"}

\* C1: when the service is unavailable the call returns the result of the
\* simple extraction and no exception reaches the caller, whatever the cache
\* holds, the empty cache of the first call included
C1_FallbackWhenUnavailable ==
    (pc = "done" /\ Unavailable) =>
        /\ ~result.raised
        /\ result.source = "fallback"
        /\ result.dict = simple_transaction_extraction(message)

-----------------------------------------------------------------------------
(* The spending analytics: what the claims say                              *)

\* try_answer has returned
Answered == pc = "done" /\ ~result.raised /\ result.source = "analytics"

\* try_answer has returned a report
Reported == Answered /\ result.dict.kind = "report"

\* the transactions of ts that the total of the expenses counts: expenses of
\* an amount above 0 dated from first to last
CountedExpenses(ts, first, last) ==
    SelectSeq(ts, LAMBDA t : /\ t.txn_type = "expense" /\ t.amount > 0
                             /\ first <= t.date /\ t.date <= last)

\* the elements of ts of category c
OfCategory(ts, c) == SelectSeq(ts, LAMBDA t : t.category = c)

\* C11: in a report the per-category sums add up to the total of the
\* expenses: every expense that the total counts (type expense, amount above
\* 0, date in the current window) is counted in exactly one category, and a
\* category holds nothing but the counted expenses of its name.
C11_CategorySumsAddUp ==
    Reported =>
        LET r == result.dict
            counted == CountedExpenses(r.txns, today - (r.days - 1), today)
        IN /\ r.total_exp = SumOf(counted, Len(counted))
           /\ SumOf(r.by_cat, Len(r.by_cat)) = r.total_exp
           /\ \A i \in 1..Len(counted) :
                  Cardinality({k \in 1..Len(r.by_cat) :
                                  r.by_cat[k].category = counted[i].category}) = 1
           /\ \A k \in 1..Len(r.by_cat) :
                  LET own == OfCategory(counted, r.by_cat[k].category)
                  IN own # <<>> /\ r.by_cat[k].amount = SumOf(own, Len(own))

\* a report on two expenses of one category and an income
C11_Witness ==
    /\ Reported
    /\ Len(result.dict.cur_exp) > Len(result.dict.by_cat)
    /\ result.dict.total_inc > 0
    /\ result.dict.total_exp = 300 * Scale

\* the days from first to last
DaysFrom(first, last) == first..last

\* C12: for every window length d in 1..366 the current window is the d
\* consecutive days ending today and the previous window is [start - d,
\* start - 1]: both hold exactly d days, they do not overlap, the previous one
\* ends the day before the current one starts, and no transaction is counted
\* in both.
C12_AdjacentWindows ==
    Reported =>
        LET r == result.dict
            d == r.days
            current == DaysFrom(r.start, r.end)
            previous == DaysFrom(r.prev_start, r.prev_end)
        IN /\ d \in 1..366
           /\ r.end = today
           /\ Cardinality(current) = d
           /\ r.prev_start = r.start - d /\ r.prev_end = r.start - 1
           /\ Cardinality(previous) = d
           /\ current \cap previous = {}
           /\ r.prev_end + 1 = r.start
           /\ r.cur = SelectSeq(r.txns, LAMBDA t : t.date \in current)
           /\ r.prev = SelectSeq(r.txns, LAMBDA t : /\ t.date \in previous
                                                    /\ t.txn_type = "expense"
                                                    /\ t.amount > 0)
           /\ \A i \in 1..Len(r.cur) : \A j \in 1..Len(r.prev) : r.cur[i] # r.prev[j]

\* a report over 366 days with expenses on the first and the last day of both
\* windows
C12_Witness ==
    /\ Reported
    /\ result.dict.days = 366
    /\ Len(result.dict.cur) = 2
    /\ Len(result.dict.prev) = 2
    /\ Len(result.dict.txns) = 5

\* the numbers that message states as a number of days: a whole run of digits
\* before one of the day words
StatedDays(m) ==
    {IntVal(SubSeq(m, i, DigitRunEnd(m, i) - 1), DigitRunEnd(m, i) - i) :
        i \in {i \in 1..Len(m) :
                  /\ IsDigit(m[i])
                  /\ (i = 1 \/ ~IsDigit(m[i - 1]))
                  /\ \E a \in 1..Len(day_tokens) :
                         /\ TokenAt(m, SpaceRunEnd(m, DigitRunEnd(m, i)), day_tokens[a])
                         /\ BoundaryAfterWord(m, SpaceRunEnd(m, DigitRunEnd(m, i))
                                                 + Len(day_tokens[a]))}}

\* the window length the message asks for: the stated number when it is in
\* 1..366 and 7 when it is not, else 7 for the week phrase, 30 for the month
\* phrase and 7 for a message that states nothing
AskedDays(m) ==
    IF StatedDays(m) # {}
    THEN (IF \E n \in StatedDays(m) : 1 <= n /\ n <= 366
          THEN CHOOSE n \in StatedDays(m) : 1 <= n /\ n <= 366
          ELSE 7)
    ELSE IF Contains(m, week_phrases[1]) THEN 7
    ELSE IF Contains(m, month_phrases[1]) THEN 30
    ELSE 7

\* C16: the window length used is an integer in 1..366: 7 when the message
\* states none, 7 for the week phrase, 30 for the month phrase, N for N days
\* with 1 <= N <= 366, and 7 when the stated number is zero or above 366.
C16_WindowLength ==
    (Answered /\ result.dict.kind \in {"report", "no_current"}) =>
        /\ result.dict.days \in 1..366
        /\ result.dict.days = AskedDays(LowerSeq(message))

\* the lines of section s in the report
LinesOf(s) == SelectSeq(result.dict.lines, LAMBDA l : l.section = s)

\* C13: the trend line is in the report if and only if the total of the
\* expenses of the previous window is above 0; when it is 0 the line is left
\* out, nothing is divided by it and try_answer returns.
C13_TrendIffPreviousTotal ==
    Reported =>
        LET r == result.dict
            before == CountedExpenses(r.txns, r.start - r.days, r.start - 1)
        IN /\ LinesOf("trend") # <<>> <=> SumOf(before, Len(before)) > 0
           /\ \A k \in 1..Len(r.lines) :
                  r.lines[k].section = "trend" => r.lines[k].delta_pct.den > 0

\* a report whose previous window holds an income and no expense: no trend
\* line
C13_Witness ==
    /\ Reported
    /\ \E k \in 1..Len(result.dict.txns) :
           /\ result.dict.txns[k].txn_type = "income"
           /\ result.dict.prev_start <= result.dict.txns[k].date
           /\ result.dict.txns[k].date <= result.dict.prev_end
    /\ result.dict.prev_total = 0
    /\ LinesOf("trend") = <<>>

\* the place of a section in the order of the report; the hint stands where
\* the savings plan would
SectionRank(s) ==
    CASE s = "totals" -> 1
      [] s = "trend" -> 2
      [] s = "top" -> 3
      [] s = "biggest" -> 4
      [] s \in {"plan", "hint"} -> 5

\* C20: in every report the sections that are there come in the order
\* totals, trend, top categories, biggest expenses, savings plan; a section
\* may be missing, none comes before one that is earlier in this order.
C20_SectionOrder ==
    Reported =>
        \A i, j \in 1..Len(result.dict.lines) :
            i < j => SectionRank(result.dict.lines[i].section)
                         <= SectionRank(result.dict.lines[j].section)

\* a report with all five sections
C20_Witness ==
    /\ Reported
    /\ \A s \in {"totals", "trend", "top", "biggest", "plan"} : LinesOf(s) # <<>>

\* try_answer has returned a report with a savings plan
Planned == Reported /\ result.dict.percent.ok /\ result.dict.total_exp > 0

RECURSIVE SumOfCuts(_, _)
\* the sum of the cuts of cuts[1..n]
SumOfCuts(cuts, n) == IF n = 0 THEN 0 ELSE SumOfCuts(cuts, n - 1) + cuts[n].cut

\* C14: for a total T > 0 of the expenses and a percent p, 0 < p < 100, the
\* savings plan has target = T * (1 - p / 100) and savings = T - target, so
\* that target + savings = T and 0 < target < T; every listed category is cut
\* by its amount * p / 100, the listed categories are the first three top
\* categories at most, and the listed cuts sum to the savings at most.  With
\* p = num / den the plan counts in 1 / K of the unit of the report's amounts,
\* K = 100 * den, so that T is T * K there and T * p / 100 is T * num.
C14_SavingsPlan ==
    Planned =>
        LET r == result.dict
            num == r.percent.num
            den == r.percent.den
            K == 100 * den
            T == r.total_exp
            plan == r.plan
        IN /\ 0 < num /\ num < 100 * den
           /\ plan.unit = K * Scale
           /\ plan.target = T * K - T * num
           /\ plan.savings = T * K - plan.target
           /\ plan.target + plan.savings = T * K
           /\ 0 < plan.target /\ plan.target < T * K
           /\ Len(plan.cuts) <= 3
           /\ Len(plan.cuts) = IF Len(r.top_cats) < 3 THEN Len(r.top_cats) ELSE 3
           /\ \A k \in 1..Len(plan.cuts) :
                  /\ plan.cuts[k].name = r.top_cats[k].category
                  /\ plan.cuts[k].cut = r.top_cats[k].amount * num
           /\ SumOfCuts(plan.cuts, Len(plan.cuts)) <= plan.savings
           /\ Len(SelectSeq(r.lines, LAMBDA l : l.section = "plan" /\ l.kind = "cut"))
                  = Len(plan.cuts)

\* expenses of 10000 in four categories and the request to cut them by 20%:
\* target 8000, savings 2000, three categories listed
C14_Witness ==
    /\ Planned
    /\ result.dict.total_exp = 10000 * Scale
    /\ result.dict.percent = [ok |-> TRUE, num |-> 20, den |-> 1]
    /\ Len(result.dict.top_cats) = 4
    /\ Len(result.dict.plan.cuts) = 3
    /\ \E k \in 1..Len(result.dict.lines) :
           result.dict.lines[k] = [section |-> "plan", kind |-> "target", amount |-> 8000]
    /\ \E k \in 1..Len(result.dict.lines) :
           result.dict.lines[k] = [section |-> "plan", kind |-> "savings", amount |-> 2000]

\* _extract_percent has returned
PercentReturned == pc = "done" /\ ~result.raised /\ result.source = "percent"

\* the patterns whose leftmost match in m has a value strictly between 0 and
\* 100
ValidPatterns(m) == {p \in 1..PercentPatterns : ValidPercent(PercentSearch(m, p))}

\* C15: _extract_percent tries its patterns in their order and returns the
\* value of the first whose match is valid, 0 < N < 100; a match out of range
\* is passed over for the next pattern and never brought into range, so the
\* value returned is strictly between 0 and 100, and None is returned when no
\* pattern has a valid match ("cut by 30%" and "30% cut" give 30, "150%"
\* gives None).
C15_FirstValidPercent ==
    PercentReturned =>
        LET v == result.dict
            valid == ValidPatterns(message)
        IN /\ v.ok => 0 < v.num /\ v.num < 100 * v.den
           /\ valid = {} => v = NoPercent
           /\ valid # {} =>
                 LET n == PercentSearch(message, CHOOSE p \in valid : \A q \in valid : p <= q)
                 IN v = [ok |-> TRUE, num |-> n.num, den |-> n.den]
           /\ message = <<"c_s", "c_o", "c_k", "c_r", "c_a", "c_t", "c_i", "c_t", "c_soft", " ", "c_n", "c_a", " ", "3", "0", "%">> => v = [ok |-> TRUE, num |-> 30, den |-> 1]
           /\ message = <<"3", "0", "%", " ", "c_s", "c_o", "c_k", "c_r", "c_a", "c_t", "c_i", "c_t", "c_soft">> => v = [ok |-> TRUE, num |-> 30, den |-> 1]
           /\ message = <<"1", "5", "0", "%">> => v = NoPercent

\* "cut by 150% 30% cut": the first pattern matches 150, which is passed
\* over, and the pattern of "N% cut" gives 30
C15_Witness ==
    /\ PercentReturned
    /\ message = <<"c_s", "c_o", "c_k", "c_r", "c_a", "c_t", "c_i", "c_t", "c_soft", " ", "c_n", "c_a", " ", "1", "5", "0", "%", " ", "3", "0", "%", " ", "c_s", "c_o", "c_k", "c_r", "c_a", "c_t", "c_i", "c_t", "c_soft">>
    /\ ~ValidPercent(PercentSearch(message, 1))
    /\ PercentSearch(message, 1).ok
    /\ result.dict = [ok |-> TRUE, num |-> 30, den |-> 1]

\* the records of the history that have a date, a type and an amount that
\* parse, in the order of the history
WellFormedHistory == SelectSeq(history, LAMBDA t : t \in WellFormedRecords)

\* the titles of ts in their order
TitlesOf(ts) == [k \in 1..Len(ts) |-> ts[k].title]

\* C17: _parse_transactions drops exactly the records with a missing or
\* unparseable date, a type other than expense and income, or an unparseable
\* amount, and keeps every other record in the order of the list; a record
\* that does not parse neither ends the computation nor changes what is made
\* of the other records: the answer is the answer to the history without it.
C17_MalformedDropped ==
    Answered =>
        /\ \A k \in 1..Len(history) : history[k] \in WellFormedRecords \cup MalformedRecords
        /\ IF WellFormedHistory = <<>>
           THEN result.dict.kind = IF history = <<>> THEN "None" ELSE "no_transactions"
           ELSE /\ result.dict.kind \in {"report", "no_current"}
                /\ TitlesOf(result.dict.txns) = TitlesOf(WellFormedHistory)
                /\ result.dict = try_answer(message, WellFormedHistory, today)

\* a report on a history of a record that does not parse between two that do
C17_Witness ==
    /\ Reported
    /\ Len(history) = 3
    /\ history[1] \in WellFormedRecords
    /\ history[2] \in MalformedRecords
    /\ history[3] \in WellFormedRecords
    /\ Len(result.dict.txns) = 2

\* the expenses that a report counts, in the order of the transaction list
Counted ==
    CountedExpenses(result.dict.txns, result.dict.start, result.dict.end)

\* the categories of the counted expenses
CountedCategories == {Counted[k].category : k \in 1..Len(Counted)}

\* the sum of the counted expenses of category c
CategorySum(c) == SumOf(OfCategory(Counted, c), Len(OfCategory(Counted, c)))

\* the place in the transaction list of the first counted expense of
\* category c
FirstEncounter(c) ==
    CHOOSE i \in 1..Len(Counted) :
        /\ Counted[i].category = c
        /\ \A j \in 1..Len(Counted) : Counted[j].category = c => i <= j

\* category c comes before category e in the ranking: a larger sum, or the
\* same sum and met earlier in the transaction list
CategoryBefore(c, e) ==
    \/ CategorySum(c) > CategorySum(e)
    \/ CategorySum(c) = CategorySum(e) /\ FirstEncounter(c) < FirstEncounter(e)

\* C18: the top categories of the report are the (at most 5) categories with
\* the largest sums of expenses in the current window, in descending order of
\* the sum; categories of equal sums stand in the order in which they were
\* first met in the transaction list.
C18_TopCategories ==
    Reported =>
        LET top == result.dict.top_cats
            listed == {top[k].category : k \in 1..Len(top)}
        IN /\ Len(top) = IF Cardinality(CountedCategories) < 5
                         THEN Cardinality(CountedCategories) ELSE 5
           /\ Cardinality(listed) = Len(top)
           /\ listed \subseteq CountedCategories
           /\ \A k \in 1..Len(top) : top[k].amount = CategorySum(top[k].category)
           /\ \A i, j \in 1..Len(top) :
                  i < j => CategoryBefore(top[i].category, top[j].category)
           /\ \A c \in listed : \A e \in CountedCategories \ listed : CategoryBefore(c, e)

\* six categories of the same sum: the five met first are listed, in the
\* order they were met
C18_Witness ==
    /\ Reported
    /\ Cardinality(CountedCategories) = 6
    /\ \A c \in CountedCategories : CategorySum(c) = 100 * Scale
    /\ [k \in 1..Len(result.dict.top_cats) |-> result.dict.top_cats[k].category]
           = <<"Food", "Taxi", "Rent", "Fun", "Books">>

\* the place in the transaction list of the counted expense x
PlaceOf(x) == CHOOSE i \in 1..Len(Counted) : Counted[i] = x

\* the biggest expenses are counted expenses in descending order of amount
BiggestDescending ==
    LET big == result.dict.biggest
    IN /\ Len(big) = IF Len(Counted) < 5 THEN Len(Counted) ELSE 5
       /\ \A k \in 1..Len(big) : \E i \in 1..Len(Counted) : Counted[i] = big[k]
       /\ \A i, j \in 1..Len(big) : i < j => big[i].amount >= big[j].amount

\* C19 as stated: the biggest expenses of the report are the (at most 5)
\* expenses of the window with the greatest amounts, in descending order of
\* amount, and expenses of equal amounts stand in the order of their dates,
\* the earlier date first throughout or the later date first throughout.
C19_TiesByDate ==
    Reported =>
        LET big == result.dict.biggest
        IN /\ BiggestDescending
           /\ \/ \A i, j \in 1..Len(big) :
                     (i < j /\ big[i].amount = big[j].amount) => big[i].date <= big[j].date
              \/ \A i, j \in 1..Len(big) :
                     (i < j /\ big[i].amount = big[j].amount) => big[i].date >= big[j].date

\* C19 amended: the biggest expenses of the report are the (at most 5)
\* expenses of the window with the greatest amounts, in descending order of
\* amount; among expenses of equal amounts the order, and which of them make
\* the cut, is decided by their place in the transaction list, the earlier
\* one first, whatever their dates.
C19_TiesByListOrder ==
    Reported =>
        LET big == result.dict.biggest
            listed == {PlaceOf(big[k]) : k \in 1..Len(big)}
        IN /\ BiggestDescending
           /\ Cardinality(listed) = Len(big)
           /\ \A i, j \in 1..Len(big) :
                  (i < j /\ big[i].amount = big[j].amount) => PlaceOf(big[i]) < PlaceOf(big[j])
           /\ \A p \in listed : \A q \in (1..Len(Counted)) \ listed :
                  \/ Counted[p].amount > Counted[q].amount
                  \/ Counted[p].amount = Counted[q].amount /\ p < q

\* seven expenses of the same amount: the first five of the list are the
\* biggest, in the order of the list, their dates going back and forth
C19_Witness ==
    /\ Reported
    /\ Len(Counted) = 7
    /\ \A k \in 1..Len(Counted) : Counted[k].amount = 100 * Scale
    /\ TitlesOf(result.dict.biggest) = <<"first", "second", "third", "fourth", "fifth">>
    /\ result.dict.biggest[1].date < result.dict.biggest[2].date
    /\ result.dict.biggest[2].date > result.dict.biggest[3].date
-----------------------------------------------------------------------------
(* The answers of try_answer                                                *)

\* the records of the list that _parse_transactions keeps
ParsedOf(h) == SelectSeq(h, LAMBDA t : ParseRecord(t).ok)

\* the kept records of the list dated in the days the message asks for
InWindowOf(h, m) ==
    SelectSeq(ParsedOf(h), LAMBDA t :
        /\ today - (DaysOf(LowerSeq(m)) - 1) <= ParseRecord(t).txn.date
        /\ ParseRecord(t).txn.date <= today)

\* the number of lines of the text an answer stands for; None is no text
TextLines(r) ==
    CASE r.kind = "None" -> 0
      [] r.kind \in {"no_transactions", "no_current"} -> 1
      [] r.kind = "report" -> Len(r.lines)

\* C21: for an analytics request and a list that is not empty try_answer
\* returns a text that is not empty and raises nothing: the answer that
\* there are no transactions when no record parses, the answer that the
\* period holds nothing when no parsed record is dated in the current
\* window, the report otherwise.  It returns None only for an empty list or
\* a message that is no analytics request.
C21_AlwaysAnAnswer ==
    pc = "done" =>
        LET r == result.dict
            asked == is_analytics_request(LowerSeq(message))
        IN /\ ~result.raised
           /\ r.kind = "None" <=> (history = <<>> \/ ~asked)
           /\ (history # <<>> /\ asked) =>
                  /\ TextLines(r) > 0
                  /\ r.kind = "no_transactions" <=> ParsedOf(history) = <<>>
                  /\ r.kind = "no_current" <=>
                         (ParsedOf(history) # <<>> /\ InWindowOf(history, message) = <<>>)
                  /\ r.kind = "report" <=> InWindowOf(history, message) # <<>>
                  /\ r.kind = "report" => r.lines[1].kind = "header"

\* an analytics request in capitals over a list of three records of which
\* none parses
C21_Witness ==
    /\ pc = "done"
    /\ message = <<"C_r", "C_a", "C_s", "C_h", "C_o", "C_d", "C_y", " ", "c_z", "c_a", " ", "3", " ", "c_d", "c_n", "c_ya">>
    /\ Len(history) = 3
    /\ result.dict.kind = "no_transactions"

-----------------------------------------------------------------------------
(* The friendliness analysis                                                *)

\* the three labels
Labels == {"positive", "neutral", "negative"}

\* analyze_friendliness has returned
Scored == pc = "done" /\ result.source = "friendliness"

\* the handler of the route has answered with a result
Routed == pc = "done" /\ result.source = "route" /\ result.dict.status = 200

\* the fraction lies in 0..1
InUnitRange(f) == f.den > 0 /\ 0 <= f.num /\ f.num <= f.den

-----------------------------------------------------------------------------
(* The emotion vectors                                                      *)

\* an emotion computation has returned a vector
Computed ==
    pc = "done" /\ result.source \in {"emotions", "simple_emotions", "friendliness"}

\* weights over the six emotions, none negative, that sum to 1
IsDistribution(v) ==
    /\ DOMAIN v.w = {EmotionKeys[i] : i \in 1..Len(EmotionKeys)}
    /\ \A k \in DOMAIN v.w : v.w[k] >= 0
    /\ v.unit > 0
    /\ TotalOf(v) = v.unit

\* C23: every vector that an emotion computation produces (analyze_emotions
\* over the service and by its keyword heuristic, _simple_emotion_analysis,
\* the vector of the friendliness heuristic) has weights over joy, fear,
\* anger, sadness, surprise, neutral that are not negative and sum to 1.0,
\* for every text, one without an emotion keyword included.
C23_VectorsSumToOne ==
    Computed => IsDistribution(result.dict.emotions)

-----------------------------------------------------------------------------
(* The classification of messages                                           *)

\* is_transaction_message has returned
Classified == pc = "done" /\ result.source = "classification"

\* the message opens with a question word
OpensWithQuestion == StartsWithAny(LowerSeq(message), question_words)

\* the message states a transaction: a transaction keyword or an amount
StatesTransaction ==
    \/ AnyKeyword(LowerSeq(message), transaction_keywords)
    \/ has_amount(LowerSeq(message))

\* C24: a message that states a transaction (keyword or amount) and does not
\* open with a question word is classified True; a message that opens with a
\* question word and holds no amount is classified False, also when it holds
\* a transaction keyword.
C24_QuestionsAreNoTransactions ==
    Classified =>
        /\ (StatesTransaction /\ ~OpensWithQuestion) => result.dict.transaction
        /\ (OpensWithQuestion /\ ~has_amount(LowerSeq(message)))
               => ~result.dict.transaction

-----------------------------------------------------------------------------
(* The cached model                                                         *)

\* an operation of the client has returned
ClientDone == pc = "done" /\ ~result.raised /\ result.source = "client"

\* the answers that are error dictionaries
ErrorResponses == {"e404", "e402", "other"}

\* the operation made a completion request with the cached model and the
\* request failed
CachedModelFailed ==
    /\ ClientDone
    /\ result.dict.requests >= 1
    /\ result.dict.model = result.dict.cache_before
    /\ result.dict.resp1 \in ErrorResponses

\* C25: whenever a completion request made with the cached model fails, in
\* any operation of the client, the cache is cleared, so that the next
\* detect_available_model() probes the models again.
C25_CacheClearedOnFailure ==
    CachedModelFailed => result.dict.resets >= 1

\* detect_available_model() has returned
Detected == pc = "done" /\ ~result.raised /\ result.source = "detect"

\* the models of the list
PreferredModels == {PREFERRED_MODELS[i] : i \in 1..Len(PREFERRED_MODELS)}

\* the places of the list at which the loop returns: a test request that
\* succeeds, or a 402 for the last model
ReturningPlaces(probe) ==
    {i \in 1..Len(PREFERRED_MODELS) :
        probe[i] = "ok" \/ (probe[i] = "e402" /\ i = Len(PREFERRED_MODELS))}

\* C26: detect_available_model() probes the models of PREFERRED_MODELS in
\* the order of the list and returns the first whose probe succeeds; a 404
\* or another error moves on, a 402 moves on unless the model is the last,
\* which is then returned.  What it returns is a member of the list and is
\* in the cache when it returns; while the cache is set a call returns the
\* cached value and probes nothing.
C26_FirstAvailableModel ==
    Detected =>
        LET r == result.dict
            places == ReturningPlaces(r.probe)
        IN /\ r.model \in PreferredModels
           /\ cache = r.model
           /\ r.cache_before # "None" => (r.model = r.cache_before /\ r.probes = 0)
           /\ (r.cache_before = "None" /\ get_access_token(net) = "token" /\ places # {}) =>
                  \E i \in places :
                      /\ \A j \in places : i <= j
                      /\ r.model = PREFERRED_MODELS[i]
                      /\ r.probes = i

\* the first model answers 402, the second 404, the last 402: the last is
\* returned after three probes
C26_Witness ==
    /\ Detected
    /\ result.dict.cache_before = "None"
    /\ result.dict.probe = <<"e402", "e404", "e402">>
    /\ result.dict.model = PREFERRED_MODELS[3]
    /\ result.dict.probes = 3


\* C27: for a message whose only percentage is a bare "N%" with 0 < N < 100,
\* _extract_percent returns N whatever follows the percent sign: the end of
\* the message, a space, punctuation or a letter.
C27_BarePercentReturned ==
    PercentReturned =>
        \A p \in BarePrefixes, n \in BareNumbers, f \in BareFollowers :
            message = BareMessage(p, n, f) /\ 0 < n.num /\ n.num < 100 * n.den
                => result.dict = [ok |-> TRUE, num |-> n.num, den |-> n.den]

\* a transaction list with a transaction whose amount is null
HasNullAmount(transactions) ==
    \E k \in 1..Len(transactions) : transactions[k].amount = NoAmount

AnalysisSources == {"generate_analysis", "generate_fallback", "with_fallback"}

\* C28: _generate_analysis_from_transactions and _generate_fallback_analysis
\* return an analysis text for every non-empty transaction list, a list with
\* a null amount included, and neither raises; so
\* extract_transactions_with_fallback does not fail when it generates the
\* analysis for transactions of the service with a null amount.
C28_AnalysisForNullAmounts ==
    pc = "done" /\ result.source \in AnalysisSources /\ result.dict.transactions # <<>>
        => /\ ~result.raised
           /\ result.dict.analysis.kind \in {"analysis", "service"}

\* a call of GigaChatAIClient.extract_transactions has ended
ExtractDone == ClientDone /\ result.dict.op = "extract_transactions"

\* C29: GigaChatAIClient.extract_transactions ends after at most two
\* completion requests for the extraction prompt: only a 404 / 'No such
\* model' error is followed by a retry, the retry comes after exactly one
\* reset of the cache and one new detection, it is made only if the model
\* detected anew differs from the model that failed, and a retry that fails
\* returns None; every other error returns None with no retry.
C29_AtMostTwoRequests ==
    ExtractDone =>
        LET r == result.dict
        IN /\ r.requests <= 2
           /\ r.requests = 2 =>
                 /\ r.resp1 = "e404"
                 /\ r.resets = 1 /\ r.detections = 1
                 /\ r.second_model # r.model
                 /\ r.resp2 \in ErrorResponses => r.ret = "None"
           /\ r.requests = 1 /\ r.resp1 = "e404" =>
                 r.resets = 1 /\ r.detections = 1 /\ r.ret = "None"
           /\ r.requests >= 1 /\ r.resp1 \in ErrorResponses \ {"e404"} =>
                 r.requests = 1 /\ r.resets = 0 /\ r.detections = 0 /\ r.ret = "None"
           /\ r.requests >= 1 /\ r.resp1 \notin ErrorResponses =>
                 r.requests = 1 /\ r.resets = 0 /\ r.detections = 0
           /\ r.requests = 0 => r.resets = 0 /\ r.detections = 0 /\ r.ret = "None"

\* the request with the cached model answers 404, the detection
\* gives another model and the retry fails as well
C29_Witness ==
    /\ ExtractDone
    /\ result.dict.requests = 2
    /\ result.dict.resp1 = "e404"
    /\ result.dict.model = result.dict.cache_before
    /\ result.dict.second_model # result.dict.model
    /\ result.dict.resp2 \in ErrorResponses
    /\ result.dict.ret = "None"

\* analyze_friendliness has answered from its keyword heuristic
ScoredByHeuristic == Scored /\ result.dict.path = "heuristic"

\* C30: on the keyword-heuristic path of analyze_friendliness the sentiment
\* agrees with the score for every combination of the counts of positive
\* and negative words: negative implies friendliness_score < 0.5, positive
\* implies friendliness_score > 0.5 and neutral implies
\* friendliness_score = 0.5.
C30_LabelAgreesWithScore ==
    ScoredByHeuristic =>
        LET score == result.dict.friendliness_score
        IN /\ result.dict.sentiment = "negative" => 2 * score.num < score.den
           /\ result.dict.sentiment = "positive" => 2 * score.num > score.den
           /\ result.dict.sentiment = "neutral" => 2 * score.num = score.den
====
